---- MODULE Spec2Model ----
(***************************************************************************)
(* A model of interface_lib/src/device_imu.c: the checksummed payload      *)
(* framing (send_payload_msg / recv_payload_msg), the session life cycle   *)
(* (device_imu_open, device_imu_read, device_imu_calibrate,                *)
(* device_imu_close) and the calibration record they maintain.             *)
(*                                                                         *)
(* Conventions.  A byte is an integer 0..255.  Multi-byte integers are     *)
(* little-endian (the host is little-endian: htole16/htole32 are the       *)
(* identity on the value).  A pointer is modelled by a record with an      *)
(* "alloc" field, NULL being [alloc |-> FALSE].  Floating point values are *)
(* modelled by exact integers (rounding is not modelled).                  *)
(***************************************************************************)
EXTENDS Integers, Sequences, FiniteSets, TLC

VARIABLES
    device,      \* the caller's device_imu_type
    iron,        \* the static max/min of iterate_iron_offset_estimation
    sendPacket,  \* the static packet of send_payload_msg
    recvPacket,  \* the static packet of recv_payload_msg
    pc,          \* position of the API call in progress ("idle": none, "done": returned)
    loc,         \* the locals of the call in progress
    stale,       \* stream frames still queued at the host, ahead of any reply
    call,        \* observation of the API call in progress or last returned
    rd,          \* observation of the last device_imu_read execution
    tx,          \* observation of the last send_payload_msg execution
    rx,          \* observation of the last recv_payload_msg execution
    ncal         \* the device_imu_calibrate calls made since the last device_imu_open

vars == <<device, iron, sendPacket, recvPacket, pc, loc, stale, call, rd, tx, rx, ncal>>

----------------------------------------------------------------------------
(* Program constants *)

MAX_PACKET_SIZE == 64

\* uint8_t data [56] of device_imu_payload_packet_t
PACKET_DATA_SIZE == 56

\* head (1) + checksum (4): the bytes of a packet in front of its length field
PACKET_HEAD_SIZE == 5

\* length (2) + msgid (1): the bytes the length field counts besides the data
PACKET_LEN_BASE == 3

PACKET_HEAD == 170     \* 0xAA

Min(a, b) == IF a < b THEN a ELSE b
Max(a, b) == IF a > b THEN a ELSE b

U8(x)  == x % 256
U16(x) == x % 65536

\* a uint64_t as four 16-bit limbs, least significant first
U64(n) == << n, 0, 0, 0 >>
Limb(d) == d % 65536
Borrow(d) == IF d < 0 THEN 1 ELSE 0
\* a - b modulo 2^64
Sub64(a, b) ==
    LET d1 == a[1] - b[1]
        d2 == a[2] - b[2] - Borrow(d1)
        d3 == a[3] - b[3] - Borrow(d2)
        d4 == a[4] - b[4] - Borrow(d3)
    IN  << Limb(d1), Limb(d2), Limb(d3), Limb(d4) >>

\* the little-endian bytes of an unsigned integer
LE16(x) == << x % 256, (x \div 256) % 256 >>
LE32(x) == << x % 256, (x \div 256) % 256, (x \div 65536) % 256, (x \div 16777216) % 256 >>

\* the uint32_t stored in four little-endian bytes
FromLE32(b) == b[1] + 256 * b[2] + 65536 * b[3] + 16777216 * b[4]

Zeros(n) == [i \in 1..n |-> 0]

\* a (<= n)-byte prefix of s, and s with its first Len(p) cells overwritten by p
Prefix(s, n) == SubSeq(s, 1, Min(n, Len(s)))
Overwrite(s, p) == [i \in 1..Len(s) |-> IF i <= Len(p) THEN p[i] ELSE s[i]]

----------------------------------------------------------------------------
(* The transport (hidapi), as the environment.                             *)

\* hid_write of n bytes: the device's host stack takes all of them, fewer, or fails
WriteOutcomes == {"full", "short", "err"}
hid_write(n, w) ==
    CASE w = "full"  -> n
      [] w = "short" -> n - 1
      [] OTHER       -> -1

\* hid_read / hid_read_timeout of at most n bytes when the next input report is
\* frame f (f.size = 0: nothing arrived; f.size = -1: the read failed)
hid_read(f, n) == IF f.size < 0 THEN -1 ELSE Min(f.size, n)

\* The crc32 primitive (crc32.h) is external to the file modelled: it is
\* represented by a position-sensitive hash of the same byte range (24 bits wide,
\* so that it stays within the integers of the model checker), folded by halves.
RECURSIVE crc32_fold(_, _, _)
crc32_fold(buf, lo, hi) ==
    IF lo > hi THEN 0
    ELSE IF lo = hi THEN buf[lo] + 1
    ELSE LET mid == (lo + hi) \div 2
         IN  (31 * crc32_fold(buf, lo, mid) + 17 * crc32_fold(buf, mid + 1, hi) + (hi - lo)) % 16777213
crc32_checksum(buf, len) == crc32_fold(buf, 1, Min(len, Len(buf)))

----------------------------------------------------------------------------
(* send_payload, send_payload_msg                                          *)

\* the 64 bytes of a device_imu_payload_packet_t (packed)
PacketBytes(p) == <<p.head>> \o LE32(p.checksum) \o LE16(p.length) \o <<p.msgid>> \o p.data

\* send_payload: [ok, asked, bytes] for a write answered by outcome w
send_payload(size, payload, w) ==
    LET payload_size == IF size > MAX_PACKET_SIZE THEN MAX_PACKET_SIZE ELSE size
        transferred  == hid_write(payload_size, w)
    IN  [ ok    |-> (transferred = payload_size) /\ (transferred = size),
          asked |-> payload_size,
          bytes |-> Prefix(payload, payload_size) ]

\* the checksum send_payload_msg stores: over packet.length bytes from &packet.length
PacketChecksum(p) ==
    crc32_checksum(SubSeq(PacketBytes(p), PACKET_HEAD_SIZE + 1, MAX_PACKET_SIZE), p.length)

\* the static packet after send_payload_msg filled it
FillPacket(packet, msgid, len, data) ==
    LET packet_len == U16(PACKET_LEN_BASE + len)
        p1 == [packet EXCEPT !.head = PACKET_HEAD, !.length = packet_len, !.msgid = msgid,
                             !.data = Overwrite(packet.data, Prefix(data, len))]
    IN  [p1 EXCEPT !.checksum = PacketChecksum(p1)]

\* a send_payload_msg that writes the whole packet, whatever the payload length
send_payload_msg_whole(packet, msgid, len, data, w) ==
    LET p == FillPacket(packet, msgid, len, data)
        s == send_payload(MAX_PACKET_SIZE, PacketBytes(p), w)
    IN  [packet |-> p, ok |-> s.ok, asked |-> s.asked, bytes |-> s.bytes]

\* send_payload_msg: [packet, ok, asked, bytes]
send_payload_msg(packet, msgid, len, data, w) ==
    LET packet_len  == U16(PACKET_LEN_BASE + len)
        payload_len == U16(PACKET_HEAD_SIZE + packet_len)
        p == FillPacket(packet, msgid, len, data)
        s == send_payload(U8(payload_len), PacketBytes(p), w)
    IN  [packet |-> p, ok |-> s.ok, asked |-> s.asked, bytes |-> s.bytes]

send_payload_msg_signal(packet, msgid, signal, w) ==
    send_payload_msg(packet, msgid, 1, <<signal>>, w)

----------------------------------------------------------------------------
(* recv_payload, recv_payload_msg                                          *)

\* recv_payload: [ok, asked, got] for a read that meets frame f
recv_payload(size, f) ==
    LET payload_size == IF size > MAX_PACKET_SIZE THEN MAX_PACKET_SIZE ELSE size
        t0 == hid_read(f, payload_size)
        transferred == IF t0 >= payload_size THEN payload_size ELSE t0
    IN  [ ok    |-> (transferred # 0) /\ (transferred = payload_size) /\ (transferred = size),
          asked |-> payload_size,
          got   |-> Max(t0, 0) ]

\* the static packet after its reset and the read of `got` bytes of frame f
\* (head, checksum and length are never read back and are left out)
ReceivedPacket(packet, f, got) ==
    [ msgid |-> IF got >= PACKET_HEAD_SIZE + PACKET_LEN_BASE THEN f.msgid ELSE 0,
      data  |-> Overwrite(packet.data,
                    Prefix(f.data, Max(got - (PACKET_HEAD_SIZE + PACKET_LEN_BASE), 0))) ]

\* a recv_payload_msg that copies the payload out before it compares the msgid
recv_payload_msg_copies(packet, msgid, len, data, f) ==
    LET r == recv_payload(U8(U16(PACKET_HEAD_SIZE + U16(PACKET_LEN_BASE + len))), f)
        p == ReceivedPacket(packet, f, r.got)
    IN  [ packet |-> p,
          ok     |-> r.ok /\ (p.msgid = msgid),
          reads  |-> <<r.asked>>,
          data   |-> IF r.ok THEN Overwrite(data, Prefix(p.data, len)) ELSE data ]

\* recv_payload_msg: [packet, ok, reads, data]: data is the caller's buffer afterwards
recv_payload_msg(packet, msgid, len, data, f) ==
    LET packet_len  == U16(PACKET_LEN_BASE + len)
        payload_len == U16(PACKET_HEAD_SIZE + packet_len)
        r == recv_payload(U8(payload_len), f)
        p == ReceivedPacket(packet, f, r.got)
        ok == r.ok /\ (p.msgid = msgid)
    IN  [ packet |-> p,
          ok     |-> ok,
          reads  |-> <<r.asked>>,
          data   |-> IF ok THEN Overwrite(data, Prefix(p.data, len)) ELSE data ]

----------------------------------------------------------------------------
(* Values.  A vector is <<x, y, z>>, a matrix a tuple of three rows, a      *)
(* quaternion a record.  NaN is a value no arithmetic or comparison treats  *)
(* as a number.                                                            *)

NaN == 0 - 1000000000

FIsNaN(x) == x = NaN
FAdd(a, b) == IF FIsNaN(a) \/ FIsNaN(b) THEN NaN ELSE a + b
FSub(a, b) == IF FIsNaN(a) \/ FIsNaN(b) THEN NaN ELSE a - b
FMul(a, b) == IF FIsNaN(a) \/ FIsNaN(b) THEN NaN ELSE a * b
FNeg(a)    == IF FIsNaN(a) THEN NaN ELSE 0 - a
FGt(a, b)  == ~FIsNaN(a) /\ ~FIsNaN(b) /\ a > b
FLt(a, b)  == ~FIsNaN(a) /\ ~FIsNaN(b) /\ a < b

FUSION_VECTOR_ZERO == <<0, 0, 0>>
FUSION_VECTOR_ONES == <<1, 1, 1>>
FUSION_IDENTITY_MATRIX == << <<1, 0, 0>>, <<0, 1, 0>>, <<0, 0, 1>> >>
FUSION_IDENTITY_QUATERNION == [w |-> 1, x |-> 0, y |-> 0, z |-> 0]

FusionVectorAdd(a, b)      == [i \in 1..3 |-> FAdd(a[i], b[i])]
FusionVectorSubtract(a, b) == [i \in 1..3 |-> FSub(a[i], b[i])]
FusionVectorHadamardProduct(a, b) == [i \in 1..3 |-> FMul(a[i], b[i])]
FusionVectorMultiplyScalar(a, k)  == [i \in 1..3 |-> FMul(a[i], k)]
FusionMatrixMultiplyVector(m, v) ==
    [i \in 1..3 |-> FAdd(FAdd(FMul(m[i][1], v[1]), FMul(m[i][2], v[2])), FMul(m[i][3], v[3]))]

FusionQuaternionMultiply(a, b) ==
    [ w |-> a.w * b.w - a.x * b.x - a.y * b.y - a.z * b.z,
      x |-> a.w * b.x + a.x * b.w + a.y * b.z - a.z * b.y,
      y |-> a.w * b.y - a.x * b.z + a.y * b.w + a.z * b.x,
      z |-> a.w * b.z + a.x * b.y - a.y * b.x + a.z * b.w ]

\* 2 * (qw*qw - 0.5 + qx*qx) and its like, in integers
FusionQuaternionToMatrix(q) ==
    << << 2 * q.w * q.w - 1 + 2 * q.x * q.x, 2 * (q.x * q.y - q.w * q.z), 2 * (q.x * q.z + q.w * q.y) >>,
       << 2 * (q.x * q.y + q.w * q.z), 2 * q.w * q.w - 1 + 2 * q.y * q.y, 2 * (q.y * q.z - q.w * q.x) >>,
       << 2 * (q.x * q.z - q.w * q.y), 2 * (q.y * q.z + q.w * q.x), 2 * q.w * q.w - 1 + 2 * q.z * q.z >> >>

\* misalignment * ((uncalibrated - offset) (.) sensitivity)
FusionCalibrationInertial(uncalibrated, misalignment, sensitivity, offset) ==
    FusionMatrixMultiplyVector(misalignment,
        FusionVectorHadamardProduct(FusionVectorSubtract(uncalibrated, offset), sensitivity))

\* FusionAxesSwap(v, FusionAxesAlignmentNXNZNY)
pre_biased_coordinate_system(v) == << FNeg(v[1]), FNeg(v[3]), FNeg(v[2]) >>

\* FusionAxesSwap(v, FusionAxesAlignmentPZPXPY)
post_biased_coordinate_system(v) == << v[3], v[1], v[2] >>

----------------------------------------------------------------------------
(* The calibration record                                                  *)

NoCalibration == [alloc |-> FALSE]

\* a matrix whose row i is num[i] / den[i]: the form of the soft iron matrix
Scaled(num, den) == [num |-> num, den |-> den]

\* the record device_imu_reset_calibration writes
ResetCalibration ==
    [ alloc |-> TRUE,
      gyroscopeMisalignment |-> FUSION_IDENTITY_MATRIX,
      gyroscopeSensitivity  |-> FUSION_VECTOR_ONES,
      gyroscopeOffset       |-> FUSION_VECTOR_ZERO,
      accelerometerMisalignment |-> FUSION_IDENTITY_MATRIX,
      accelerometerSensitivity  |-> FUSION_VECTOR_ONES,
      accelerometerOffset       |-> FUSION_VECTOR_ZERO,
      magnetometerMisalignment |-> FUSION_IDENTITY_MATRIX,
      magnetometerSensitivity  |-> FUSION_VECTOR_ONES,
      magnetometerOffset       |-> FUSION_VECTOR_ZERO,
      softIronMatrix |-> Scaled(FUSION_IDENTITY_MATRIX, FUSION_VECTOR_ONES),
      hardIronOffset |-> Scaled(FUSION_VECTOR_ZERO, 1),
      noises |-> [FUSION_IDENTITY_QUATERNION EXCEPT !.w = 0] ]

device_imu_reset_calibration(dev) ==
    IF ~dev.calibration.alloc THEN dev
    ELSE [dev EXCEPT !.calibration = ResetCalibration]

----------------------------------------------------------------------------
(* The calibration document (json-c, external).  A JSON value is modelled  *)
(* by the sequence of its array elements; a missing or malformed value by  *)
(* the empty sequence.                                                     *)

json_object_get_vector(obj) ==
    IF Len(obj) # 3 THEN FUSION_VECTOR_ZERO ELSE << obj[1], obj[2], obj[3] >>

json_object_get_quaternion(obj) ==
    IF Len(obj) # 4 THEN FUSION_IDENTITY_QUATERNION
    ELSE [x |-> obj[1], y |-> obj[2], z |-> obj[3], w |-> obj[4]]

\* json_object_object_get(dev1, key) when the parse gave no "IMU"/"device_1" object
NullDocument ==
    [ accel_bias |-> <<>>, accel_q_gyro |-> <<>>, gyro_bias |-> <<>>, gyro_q_mag |-> <<>>,
      mag_bias |-> <<>>, imu_noises |-> <<>>, scale_accel |-> <<>>, scale_gyro |-> <<>>,
      scale_mag |-> <<>> ]

\* the "device_1" object of the document a device holds
DeviceDocument ==
    [ accel_bias |-> <<6, 0, 12>>, accel_q_gyro |-> <<1, 0, 0, 0>>, gyro_bias |-> <<12, 6, 0>>,
      gyro_q_mag |-> <<0, 1, 0, 0>>, mag_bias |-> <<2, 0, 0>>, imu_noises |-> <<1, 2, 3, 4>>,
      scale_accel |-> <<1, 1, 2>>, scale_gyro |-> <<2, 1, 1>>, scale_mag |-> <<1, 1, 1>> ]

\* the bytes of the calibration blob of length L a device holds
BlobByte(i) == (37 * i + 11) % 256
Blob(L) == [i \in 1..L |-> BlobByte(i)]

\* json_tokener_parse_ex on the first L bytes of the buffer, then the lookups of "IMU"
\* and "device_1": only the whole text of a blob that is a JSON document parses
ParseDocument(buffer, L, kind) ==
    IF kind = "json" /\ L > 0 /\ Prefix(buffer, L) = Blob(L) THEN DeviceDocument
    ELSE NullDocument

\* lines 294-318: the calibration record open installs from the parsed document
InstallCalibration(cal, dev1) ==
    LET accel_bias   == json_object_get_vector(dev1.accel_bias)
        accel_q_gyro == json_object_get_quaternion(dev1.accel_q_gyro)
        gyro_bias    == json_object_get_vector(dev1.gyro_bias)
        gyro_q_mag   == json_object_get_quaternion(dev1.gyro_q_mag)
        mag_bias     == json_object_get_vector(dev1.mag_bias)
        imu_noises   == json_object_get_quaternion(dev1.imu_noises)
        scale_accel  == json_object_get_vector(dev1.scale_accel)
        scale_gyro   == json_object_get_vector(dev1.scale_gyro)
        scale_mag    == json_object_get_vector(dev1.scale_mag)
        accel_q_mag  == FusionQuaternionMultiply(accel_q_gyro, gyro_q_mag)
    IN  [cal EXCEPT
            !.gyroscopeMisalignment = FusionQuaternionToMatrix(accel_q_gyro),
            !.gyroscopeSensitivity  = scale_gyro,
            !.gyroscopeOffset       = gyro_bias,
            !.accelerometerMisalignment = FUSION_IDENTITY_MATRIX,
            !.accelerometerSensitivity  = scale_accel,
            !.accelerometerOffset       = accel_bias,
            !.magnetometerMisalignment = FusionQuaternionToMatrix(accel_q_mag),
            !.magnetometerSensitivity  = scale_mag,
            !.magnetometerOffset       = mag_bias,
            !.noises = imu_noises ]

----------------------------------------------------------------------------
(* Input reports.  A frame is one HID input report seen both ways the      *)
(* code reads it: as a device_imu_packet_type (signature, timestamp,       *)
(* temperature and the three sensor readings readIMU_from_packet decodes)  *)
(* and as a device_imu_payload_packet_type (msgid, data).  size is what    *)
(* the transport delivers of it: 64, fewer, 0 (nothing), -1 (read failed). *)

Frame(size, sig, ts, temp, g, a, m, msgid, data) ==
    [ size |-> size, sig |-> sig, ts |-> ts, temp |-> temp, gyro |-> g, accel |-> a,
      mag |-> m, msgid |-> msgid, data |-> data ]

\* the two signatures device_imu_read knows
SIG_DATA == <<1, 2>>
SIG_INIT == <<170, 83>>

NoData == Zeros(PACKET_DATA_SIZE)

ErrFrame   == Frame(-1, <<0, 0>>, 0, 0, FUSION_VECTOR_ZERO, FUSION_VECTOR_ZERO, FUSION_VECTOR_ZERO, 0, NoData)
NoFrame    == Frame(0, <<0, 0>>, 0, 0, FUSION_VECTOR_ZERO, FUSION_VECTOR_ZERO, FUSION_VECTOR_ZERO, 0, NoData)
ShortFrame == Frame(MAX_PACKET_SIZE - 1, SIG_DATA, 7, 50, <<2, 2, 2>>, <<2, 2, 2>>, <<2, 2, 2>>, 0, NoData)
InitFrame  == Frame(MAX_PACKET_SIZE, SIG_INIT, 9, 0, FUSION_VECTOR_ZERO, FUSION_VECTOR_ZERO, FUSION_VECTOR_ZERO, 0, NoData)
OtherFrame == Frame(MAX_PACKET_SIZE, <<1, 3>>, 11, 50, <<2, 2, 2>>, <<2, 2, 2>>, <<2, 2, 2>>, 0, NoData)
DataFrame1 == Frame(MAX_PACKET_SIZE, SIG_DATA, 5, 100, <<2, 4, 6>>, <<0, 2, 8>>, <<4, -2, 6>>, 0, NoData)
DataFrame2 == Frame(MAX_PACKET_SIZE, SIG_DATA, 3, -200, <<-4, 2, 0>>, <<2, 0, 10>>, <<4, -2, 6>>, 0, NoData)

DataFrames == {DataFrame1, DataFrame2}

\* what a read of the stream can meet
StreamFrames == {ErrFrame, NoFrame, ShortFrame, InitFrame, OtherFrame} \cup DataFrames

\* the report a device sends in reply to a request: a packet with the payload
ReplyFrame(msgid, payload) ==
    Frame(MAX_PACKET_SIZE, <<PACKET_HEAD, 0>>, 0, 0, FUSION_VECTOR_ZERO, FUSION_VECTOR_ZERO,
          FUSION_VECTOR_ZERO, msgid, Overwrite(NoData, payload))

IsFull(f) == f.size = MAX_PACKET_SIZE
IsDataFrame(f) == IsFull(f) /\ f.sig = SIG_DATA
IsInitFrame(f) == IsFull(f) /\ f.sig = SIG_INIT

----------------------------------------------------------------------------
(* The magnetometer iron estimator                                         *)

\* FLT_MIN is the smallest positive float: it is modelled by 1 and the
\* magnetometer readings by even integers, so that it lies, as in C, above 0
\* and below every positive reading.  FLT_MAX is above every reading.
FLT_MIN == 1
FLT_MAX == 1000000

IronInit == [ max |-> <<FLT_MIN, FLT_MIN, FLT_MIN>>, min |-> <<FLT_MAX, FLT_MAX, FLT_MAX>> ]

\* the macros max(x, y) and min(x, y)
max(x, y) == IF FGt(x, y) THEN x ELSE y
min(x, y) == IF FLt(x, y) THEN x ELSE y

\* [iron, softIronMatrix, hardIronOffset] after one sample
iterate_iron_offset_estimation(ir, magnetometer) ==
    LET mx == [i \in 1..3 |-> max(ir.max[i], magnetometer[i])]
        mn == [i \in 1..3 |-> min(ir.min[i], magnetometer[i])]
    IN  [ iron |-> [max |-> mx, min |-> mn],
          \* diag(1 / ((max - min) / 2))
          softIronMatrix |-> Scaled(<< <<2, 0, 0>>, <<0, 2, 0>>, <<0, 0, 2>> >>,
                                    FusionVectorSubtract(mx, mn)),
          \* (min + max) / 2
          hardIronOffset |-> Scaled(FusionVectorAdd(mn, mx), 2) ]

\* FusionCalibrationMagnetic, softIronMatrix * (uncalibrated - hardIronOffset), with
\* the diagonal matrix and the offset iterate_iron_offset_estimation gives.  Each
\* axis of the result is given as what isnan and isinf say of it: a zero range
\* makes the diagonal element infinite, and infinity times zero is NaN
FusionCalibrationMagnetic(uncalibrated, softIronMatrix, hardIronOffset) ==
    LET \* twice (uncalibrated - hardIronOffset)
        centred == FusionVectorSubtract(FusionVectorMultiplyScalar(uncalibrated, hardIronOffset.den),
                                        hardIronOffset.num)
        anyNaN == \E j \in 1..3 : FIsNaN(centred[j]) \/ FIsNaN(softIronMatrix.den[j])
        axis(i) == IF anyNaN THEN "nan"
                   ELSE IF softIronMatrix.den[i] # 0 THEN "finite"
                   ELSE IF centred[i] = 0 THEN "nan" ELSE "inf"
    IN  << axis(1), axis(2), axis(3) >>

\* isnan of a calibrated magnetometer axis
isnan(x) == x = "nan"

\* apply_calibration: [device, iron, magnetometer]; the calibrated gyroscope and
\* accelerometer go to the fusion engine and are not kept
apply_calibration(dev, ir, gyroscope, accelerometer, magnetometer) ==
    LET cal == IF dev.calibration.alloc THEN dev.calibration ELSE ResetCalibration
        m0  == pre_biased_coordinate_system(magnetometer)
        m   == FusionCalibrationInertial(m0, cal.magnetometerMisalignment,
                                         cal.magnetometerSensitivity, cal.magnetometerOffset)
        \* lines 660-680, with the estimate est and the vector v computed before them
        Calibrated(est, v) ==
            [ device |-> IF dev.calibration.alloc
                         THEN [dev EXCEPT !.calibration.softIronMatrix = est.softIronMatrix,
                                          !.calibration.hardIronOffset = est.hardIronOffset]
                         ELSE dev,
              iron   |-> est.iron,
              magnetometer |-> post_biased_coordinate_system(
                  FusionCalibrationMagnetic(v, est.softIronMatrix, est.hardIronOffset)) ]
    IN  CHOOSE r \in { Calibrated(est, v) : est \in {iterate_iron_offset_estimation(ir, m)},
                                            v \in {<< m[1], m[2], m[3] >>} } : TRUE

----------------------------------------------------------------------------
(* device_imu_read                                                         *)

NoHandle == [alloc |-> FALSE]
NoAhrs   == [alloc |-> FALSE]
NoOffset == [alloc |-> FALSE]

\* what the fusion engine can report as its orientation after an update: all
\* components finite, one NaN, or one infinite and none NaN
Orientations == {"finite", "nan", "inf"}

\* ((float) temperature) / 132.48f + 25.0f, in units of 1/13248 degree
Temperature(raw) == 100 * raw + 25 * 13248

\* an event handed to the callback
Event(kind, timestamp, ahrs) == [event |-> kind, timestamp |-> timestamp, ahrs |-> ahrs.alloc]

\* a callback handed the timestamp the device last stored, not the frame's
device_imu_callback_last(dev, timestamp, kind) ==
    IF ~dev.callback THEN <<>> ELSE << Event(kind, dev.last_timestamp, dev.ahrs) >>

\* device_imu_callback: the events the caller's callback receives
device_imu_callback(dev, timestamp, kind) ==
    IF ~dev.callback THEN <<>> ELSE << Event(kind, timestamp, dev.ahrs) >>

\* isnan(orientation.x) || isnan(orientation.y) || isnan(orientation.z) || isnan(orientation.w)
InvalidOrientation(q) == q = "nan"

\* an update that uses the magnetometer when its reading is a number
FusionAhrsUpdateWithMagnetometer(magnetometer) ==
    IF isnan(magnetometer[1]) \/ isnan(magnetometer[1]) \/ isnan(magnetometer[1])
    THEN "NoMagnetometer"
    ELSE "Magnetometer"

\* lines 887-893: the update of the fusion engine the read calls
FusionAhrsUpdateCalled(magnetometer) ==
    IF isnan(magnetometer[1]) \/ isnan(magnetometer[1]) \/ isnan(magnetometer[1])
    THEN "NoMagnetometer"
    ELSE "NoMagnetometer"

\* a data frame whose timestamp is stored only when the orientation is valid
ProcessDataFrameKeepsOnInvalid(dev, ir, f, q) ==
    LET timestamp == U64(f.ts)
        delta == Sub64(timestamp, dev.last_timestamp)
        d1 == [dev EXCEPT !.temperature = Temperature(f.temp)]
        ac == apply_calibration(d1, ir, f.gyro, f.accel, f.mag)
        d2 == IF ac.device.offset.alloc
              THEN [ac.device EXCEPT !.offset.gyro = f.gyro]
              ELSE ac.device
        d3 == IF d2.ahrs.alloc THEN [d2 EXCEPT !.ahrs.q = q] ELSE d2
        fusion == IF d2.ahrs.alloc
                  THEN << [update |-> FusionAhrsUpdateCalled(ac.magnetometer),
                           deltaTime |-> delta, magnetometer |-> ac.magnetometer] >>
                  ELSE <<>>
    IN  IF d3.ahrs.alloc /\ InvalidOrientation(d3.ahrs.q)
        THEN [ device |-> d3, iron |-> ac.iron, ret |-> "INVALID_VALUE",
               events |-> <<>>, fusion |-> fusion ]
        ELSE [ device |-> [d3 EXCEPT !.last_timestamp = timestamp], iron |-> ac.iron,
               ret |-> "NO_ERROR",
               events |-> device_imu_callback(d3, timestamp, "UPDATE"), fusion |-> fusion ]

\* lines 859-906: a data frame
ProcessDataFrame(dev, ir, f, q) ==
    LET timestamp == U64(f.ts)
        delta == Sub64(timestamp, dev.last_timestamp)
        d1 == [dev EXCEPT !.last_timestamp = timestamp, !.temperature = Temperature(f.temp)]
        ac == apply_calibration(d1, ir, f.gyro, f.accel, f.mag)
        d2 == IF ac.device.offset.alloc
              THEN [ac.device EXCEPT !.offset.gyro = f.gyro]
              ELSE ac.device
        d3 == IF d2.ahrs.alloc THEN [d2 EXCEPT !.ahrs.q = q] ELSE d2
        fusion == IF d2.ahrs.alloc
                  THEN << [update |-> FusionAhrsUpdateCalled(ac.magnetometer),
                           deltaTime |-> delta, magnetometer |-> ac.magnetometer] >>
                  ELSE <<>>
    IN  IF d3.ahrs.alloc /\ InvalidOrientation(d3.ahrs.q)
        THEN [ device |-> d3, iron |-> ac.iron, ret |-> "INVALID_VALUE",
               events |-> <<>>, fusion |-> fusion ]
        ELSE [ device |-> d3, iron |-> ac.iron, ret |-> "NO_ERROR",
               events |-> device_imu_callback(d3, timestamp, "UPDATE"), fusion |-> fusion ]

\* the result of device_imu_read when nothing but the return value is decided
ReadReturns(dev, ir, ret, events) ==
    [ device |-> dev, iron |-> ir, ret |-> ret, events |-> events, fusion |-> <<>> ]

\* a dispatch that tests the size before it tests for an empty read
ReadDispatchSizeFirst(dev, ir, f, q) ==
    LET transferred == hid_read(f, MAX_PACKET_SIZE)
    IN  IF transferred = -1 THEN ReadReturns(dev, ir, "UNPLUGGED", <<>>)
        ELSE IF MAX_PACKET_SIZE # transferred THEN ReadReturns(dev, ir, "UNEXPECTED", <<>>)
        ELSE IF transferred = 0 THEN ReadReturns(dev, ir, "NO_ERROR", <<>>)
        ELSE IF f.sig[1] = 170 /\ f.sig[2] = 83
             THEN ReadReturns(dev, ir, "NO_ERROR", device_imu_callback(dev, U64(f.ts), "INIT"))
        ELSE IF f.sig[1] # 1 \/ f.sig[2] # 2
             THEN ReadReturns(dev, ir, "WRONG_SIGNATURE", <<>>)
        ELSE ProcessDataFrame(dev, ir, f, q)

\* a dispatch that stores the timestamp of every full frame before it looks at
\* the signature
ReadDispatchEager(dev, ir, f, q) ==
    LET transferred == hid_read(f, MAX_PACKET_SIZE)
        stamped == [dev EXCEPT !.last_timestamp = U64(f.ts)]
    IN  IF transferred = -1 THEN ReadReturns(dev, ir, "UNPLUGGED", <<>>)
        ELSE IF transferred = 0 THEN ReadReturns(dev, ir, "NO_ERROR", <<>>)
        ELSE IF MAX_PACKET_SIZE # transferred THEN ReadReturns(dev, ir, "UNEXPECTED", <<>>)
        ELSE IF f.sig[1] = 170 /\ f.sig[2] = 83
             THEN ReadReturns(stamped, ir, "NO_ERROR", device_imu_callback(dev, U64(f.ts), "INIT"))
        ELSE IF f.sig[1] # 1 \/ f.sig[2] # 2
             THEN ReadReturns(stamped, ir, "WRONG_SIGNATURE", <<>>)
        ELSE ProcessDataFrame(dev, ir, f, q)

\* lines 833-857: the dispatch on what one read of the transport gave
ReadDispatch(dev, ir, f, q) ==
    LET transferred == hid_read(f, MAX_PACKET_SIZE)
    IN  IF transferred = -1 THEN ReadReturns(dev, ir, "UNPLUGGED", <<>>)
        ELSE IF transferred = 0 THEN ReadReturns(dev, ir, "NO_ERROR", <<>>)
        ELSE IF MAX_PACKET_SIZE # transferred THEN ReadReturns(dev, ir, "UNEXPECTED", <<>>)
        ELSE IF f.sig[1] = 170 /\ f.sig[2] = 83
             THEN ReadReturns(dev, ir, "NO_ERROR", device_imu_callback(dev, U64(f.ts), "INIT"))
        ELSE IF f.sig[1] # 1 \/ f.sig[2] # 2
             THEN ReadReturns(dev, ir, "WRONG_SIGNATURE", <<>>)
        ELSE ProcessDataFrame(dev, ir, f, q)

\* device_imu_read: [device, iron, ret, events, fusion, reads, pre, frame]
device_imu_read(dev, ir, timeout, f, q) ==
    LET obs == [pre |-> [device |-> dev, iron |-> ir], frame |-> f]
    IN  IF ~dev.handle.alloc
        THEN ReadReturns(dev, ir, "NO_HANDLE", <<>>) @@ [reads |-> <<>>] @@ obs
        ELSE ReadDispatch(dev, ir, f, q) @@ [reads |-> <<timeout>>] @@ obs

----------------------------------------------------------------------------
(* The session: state                                                      *)

\* message ids (device_imu.h)
DEVICE_IMU_MSG_GET_CAL_DATA_LENGTH == 20
DEVICE_IMU_MSG_CAL_DATA_GET_NEXT_SEGMENT == 21
DEVICE_IMU_MSG_START_IMU_DATA == 25
DEVICE_IMU_MSG_GET_STATIC_ID == 26

\* xreal_vendor_id and the product id of the glasses found (hid_ids.h)
XREAL_VENDOR_ID == 13080
XREAL_PRODUCT_ID == 1060

\* 0x20220101
FALLBACK_STATIC_ID == 539099393

\* the static id a device answers with
DeviceStaticId == 16909060

\* the timeout device_imu_clear reads with
CLEAR_TIMEOUT == 10

\* the timeout the caller's reads use
ReadTimeout == 1000

(* Bounds *)

\* most stream frames queued at the host when open stops the stream
MaxStale == 2
\* most iterations a device_imu_calibrate call is given
MaxIter == 2
\* most frames one device_imu_calibrate call skips
MaxSkip == 1
\* most device_imu_calibrate calls between two calls of device_imu_open
MaxCal == 1

\* the calibration lengths a device announces
CalLens == {0, 1, 56, 57, 112, 130}

\* memset(device, 0, sizeof(device_imu_type))
ZeroDevice ==
    [ vendor_id |-> 0, product_id |-> 0, handle |-> NoHandle, callback |-> FALSE,
      static_id |-> 0, calibration |-> NoCalibration, ahrs |-> NoAhrs, offset |-> NoOffset,
      last_timestamp |-> U64(0), temperature |-> 0 ]

\* a zeroed device_imu_payload_packet_type (static storage)
ZeroSendPacket == [head |-> 0, checksum |-> 0, length |-> 0, msgid |-> 0, data |-> NoData]
ZeroRecvPacket == [msgid |-> 0, data |-> NoData]

NoLoc  == [none |-> TRUE]
NoCall == [op |-> "none", ret |-> "none"]
NoRd   == [frame |-> NoFrame, ret |-> "none", events |-> <<>>, fusion |-> <<>>, reads |-> <<>>,
           pre |-> [none |-> TRUE]]
NoTx   == [ret |-> "none"]
NoRx   == [ret |-> "none"]

\* all the state but the named part, as Init has it
InitBut(part) ==
    /\ "device" \in part \/ device = ZeroDevice
    /\ "sendPacket" \in part \/ sendPacket = ZeroSendPacket
    /\ "recvPacket" \in part \/ recvPacket = ZeroRecvPacket
    /\ iron = IronInit
    /\ pc = "idle"
    /\ "loc" \in part \/ loc = NoLoc
    /\ stale = 0
    /\ call = NoCall
    /\ rd = NoRd
    /\ tx = NoTx
    /\ rx = NoRx
    /\ ncal = 0

\* the observation kept of a device_imu_read execution
ReadObservation(r) ==
    [frame |-> r.frame, ret |-> r.ret, events |-> r.events, fusion |-> r.fusion, reads |-> r.reads,
     pre |-> r.pre]

Init == InitBut({})

\* In the session the two static packets are not carried from call to call: no
\* byte of an earlier packet reaches the transport or the caller (SendFresh and
\* RecvFresh, checked under SpecSend and SpecRecv, where the packets are carried),
\* so every exchange of the session starts from the packets as they are here.
framing == <<sendPacket, recvPacket, tx, rx>>

\* a call returns: its locals go, and what is still queued is the stream's
Return(ret, c) ==
    /\ pc' = "done"
    /\ loc' = NoLoc
    /\ stale' = 0
    /\ call' = [c EXCEPT !.ret = ret]

\* the caller has the result of the call and goes on
Resume ==
    /\ pc = "done"
    /\ pc' = "idle"
    /\ call' = NoCall
    /\ rd' = NoRd
    /\ UNCHANGED <<device, iron, loc, stale, ncal>>
    /\ UNCHANGED framing

\* the frame a read during open meets: the oldest queued stream frame, if any
StaleFrame == DataFrame1
Arrivals(fresh) == IF stale > 0 THEN {StaleFrame} ELSE fresh
Popped == IF stale > 0 THEN stale - 1 ELSE 0

\* what can arrive in answer to a request: the reply, a packet with another msgid,
\* nothing, an error, a short report
Replies(msgid, payload) ==
    { ReplyFrame(msgid, payload), ReplyFrame(U8(msgid + 1), payload),
      NoFrame, ErrFrame, [ReplyFrame(msgid, payload) EXCEPT !.size = PACKET_HEAD_SIZE + PACKET_LEN_BASE] }

Wrote(msgid, data, ok) == [dir |-> "W", msgid |-> msgid, data |-> data, ok |-> ok]
Read(what, ok) == [dir |-> "R", msgid |-> what, data |-> <<>>, ok |-> ok]

----------------------------------------------------------------------------
(* device_imu_open, one action per exchange with the transport             *)

\* the observation of an open in progress: io is the order of its writes and reads,
\* asks the length each segment request asked for, segs the payloads received
OpenCall ==
    [ op |-> "open", ret |-> "pending", io |-> <<>>, asks |-> <<>>, segs |-> <<>>,
      segSends |-> 0, segFailed |-> FALSE, sentAfterFail |-> FALSE, announced |-> -1,
      events |-> <<>>, idReply |-> "none" ]

\* lines 196-237: memset, the subsystem, the handle
OpenBegin ==
    /\ pc = "idle"
    /\ rd' = NoRd
    /\ ncal' = 0
    /\ UNCHANGED iron
    /\ UNCHANGED framing
    /\ \E cb \in BOOLEAN :
         LET d0 == [ZeroDevice EXCEPT !.vendor_id = XREAL_VENDOR_ID, !.callback = cb]
             d1 == [d0 EXCEPT !.product_id = XREAL_PRODUCT_ID]
         IN  \/ device' = d0 /\ Return("NOT_INITIALIZED", OpenCall)
             \/ \E d \in {d0, d1} : device' = d /\ Return("NO_HANDLE", OpenCall)
             \/ /\ device' = [d1 EXCEPT !.handle = [alloc |-> TRUE]]
                /\ pc' = "open_stop"
                /\ call' = OpenCall
                /\ UNCHANGED <<loc, stale>>

\* a message sent from position `at`: on failure open returns PAYLOAD_FAILED
OpenRequest(at, msgid, len, data, next) ==
    /\ pc = at
    /\ UNCHANGED <<device, iron, rd, ncal>>
    /\ UNCHANGED framing
    /\ \E w \in WriteOutcomes :
         LET s == send_payload_msg(sendPacket, msgid, len, data, w)
             c == [call EXCEPT !.io = Append(@, Wrote(msgid, data, s.ok))]
         IN  IF ~s.ok THEN Return("PAYLOAD_FAILED", c)
             ELSE pc' = next /\ call' = c /\ UNCHANGED <<loc, stale>>

\* lines 239-242: the stop signal; the stream may have left frames queued
OpenStop ==
    /\ pc = "open_stop"
    /\ UNCHANGED <<device, iron, rd, ncal>>
    /\ UNCHANGED framing
    /\ \E w \in WriteOutcomes :
         LET s == send_payload_msg_signal(sendPacket, DEVICE_IMU_MSG_START_IMU_DATA, 0, w)
             c == [call EXCEPT !.io = Append(@, Wrote(DEVICE_IMU_MSG_START_IMU_DATA, <<0>>, s.ok))]
         IN  IF ~s.ok THEN Return("PAYLOAD_FAILED", c)
             ELSE /\ pc' = "open_clear"
                  /\ call' = c
                  /\ loc' = loc
                  /\ stale' \in 0..MaxStale

\* line 244: device_imu_clear
OpenClear ==
    /\ pc = "open_clear"
    /\ \E f \in Arrivals(StreamFrames) :
         LET r == device_imu_read(device, iron, CLEAR_TIMEOUT, f, "finite")
         IN  /\ device' = r.device
             /\ iron' = r.iron
             /\ rd' = ReadObservation(r)
             /\ call' = [call EXCEPT !.io = Append(@, Read("clear", r.ret = "NO_ERROR")),
                                     !.events = @ \o r.events]
    /\ stale' = Popped
    /\ pc' = "open_send_id"
    /\ UNCHANGED <<loc, ncal>>
    /\ UNCHANGED framing

\* lines 246-249
OpenSendStaticId ==
    /\ OpenRequest("open_send_id", DEVICE_IMU_MSG_GET_STATIC_ID, 0, <<>>, "open_recv_id")

\* lines 251-259: the static id or its fallback, then the calibration record
OpenRecvStaticId ==
    /\ pc = "open_recv_id"
    /\ \E f \in Arrivals(Replies(DEVICE_IMU_MSG_GET_STATIC_ID, LE32(DeviceStaticId))) :
         LET r == recv_payload_msg(recvPacket, DEVICE_IMU_MSG_GET_STATIC_ID, 4, Zeros(4), f)
             d1 == [device EXCEPT !.static_id = IF r.ok THEN FromLE32(r.data)
                                                ELSE FALLBACK_STATIC_ID,
                                  !.calibration = [alloc |-> TRUE]]
         IN  /\ device' = device_imu_reset_calibration(d1)
             /\ call' = [call EXCEPT !.io = Append(@, Read(DEVICE_IMU_MSG_GET_STATIC_ID, r.ok)),
                                     !.idReply = IF r.ok THEN "received" ELSE "failed"]
    /\ stale' = Popped
    /\ pc' = "open_send_len"
    /\ rd' = NoRd
    /\ UNCHANGED <<iron, loc, ncal>>
    /\ UNCHANGED framing

\* lines 261-264
OpenSendCalLen ==
    /\ OpenRequest("open_send_len", DEVICE_IMU_MSG_GET_CAL_DATA_LENGTH, 0, <<>>, "open_recv_len")

\* a byte of a malloc'ed block that nothing was written to yet
Indeterminate == 0 - 1

\* an open that gives up when the calibration length is not received
OpenRecvCalLenFatal ==
    /\ pc = "open_recv_len"
    /\ UNCHANGED <<device, iron, rd, ncal>>
    /\ UNCHANGED framing
    /\ \E L \in CalLens :
       \E f \in Arrivals(Replies(DEVICE_IMU_MSG_GET_CAL_DATA_LENGTH, LE32(L))) :
         LET r == recv_payload_msg(recvPacket, DEVICE_IMU_MSG_GET_CAL_DATA_LENGTH, 4, Zeros(4), f)
             calibration_len == FromLE32(r.data)
         IN  IF r.ok
             THEN /\ loc' = [ calibration_len |-> calibration_len, position |-> 0,
                              calibration_data |-> [i \in 1..(calibration_len + 1) |-> Indeterminate] ]
                  /\ call' = [call EXCEPT
                        !.io = Append(@, Read(DEVICE_IMU_MSG_GET_CAL_DATA_LENGTH, TRUE)),
                        !.announced = calibration_len]
                  /\ pc' = IF 0 < calibration_len THEN "open_seg_send" ELSE "open_parse"
                  /\ stale' = Popped
             ELSE Return("PAYLOAD_FAILED",
                         [call EXCEPT !.io = Append(@, Read(DEVICE_IMU_MSG_GET_CAL_DATA_LENGTH, FALSE))])

\* lines 266-270: the announced length and the buffer for it
OpenRecvCalLen ==
    /\ pc = "open_recv_len"
    /\ stale' = Popped
    /\ UNCHANGED <<device, iron, rd, ncal>>
    /\ UNCHANGED framing
    /\ \E L \in CalLens :
       \E f \in Arrivals(Replies(DEVICE_IMU_MSG_GET_CAL_DATA_LENGTH, LE32(L))) :
         LET r == recv_payload_msg(recvPacket, DEVICE_IMU_MSG_GET_CAL_DATA_LENGTH, 4, Zeros(4), f)
             calibration_len == FromLE32(r.data)
         IN  IF r.ok
             THEN /\ loc' = [ calibration_len |-> calibration_len, position |-> 0,
                              calibration_data |-> [i \in 1..(calibration_len + 1) |-> Indeterminate] ]
                  /\ call' = [call EXCEPT
                        !.io = Append(@, Read(DEVICE_IMU_MSG_GET_CAL_DATA_LENGTH, TRUE)),
                        !.announced = calibration_len]
                  /\ pc' = IF 0 < calibration_len THEN "open_seg_send" ELSE "open_parse"
             ELSE /\ loc' = NoLoc
                  /\ call' = [call EXCEPT
                        !.io = Append(@, Read(DEVICE_IMU_MSG_GET_CAL_DATA_LENGTH, FALSE))]
                  /\ pc' = "open_start"

\* a segment length that does not look at what remains
NextSegmentWhole(remaining) == PACKET_DATA_SIZE

\* line 278: const uint8_t next = (remaining > 56? 56 : remaining)
NextSegment(remaining) == U8(IF remaining > PACKET_DATA_SIZE THEN PACKET_DATA_SIZE ELSE remaining)

\* lines 271-276: the request for the next segment; a failed send breaks the loop
OpenSegSend ==
    /\ pc = "open_seg_send"
    /\ loc.position < loc.calibration_len
    /\ UNCHANGED <<device, iron, loc, stale, rd, ncal>>
    /\ UNCHANGED framing
    /\ \E w \in WriteOutcomes :
         LET s == send_payload_msg(sendPacket, DEVICE_IMU_MSG_CAL_DATA_GET_NEXT_SEGMENT, 0, <<>>, w)
         IN  /\ call' = [call EXCEPT
                   !.io = Append(@, Wrote(DEVICE_IMU_MSG_CAL_DATA_GET_NEXT_SEGMENT, <<>>, s.ok)),
                   !.segSends = @ + 1,
                   !.sentAfterFail = @ \/ call.segFailed,
                   !.segFailed = @ \/ ~s.ok]
             /\ pc' = IF s.ok THEN "open_seg_recv" ELSE "open_parse"

\* the buffer with what recv_payload_msg did to the memory from `position` on
StoreAt(buffer, position, tail) ==
    [i \in 1..Len(buffer) |-> IF i > position THEN tail[i - position] ELSE buffer[i]]

\* line 284: position += next
Advance(position, next) == position + next

\* lines 278-285: the segment; a failed receive breaks the loop
OpenSegRecv ==
    /\ pc = "open_seg_recv"
    /\ stale' = Popped
    /\ UNCHANGED <<device, iron, rd, ncal>>
    /\ UNCHANGED framing
    /\ LET remaining == loc.calibration_len - loc.position
           next == NextSegment(remaining)
           \* the device sends the next 56 bytes of its blob, or what is left of it
           sent == SubSeq(Blob(loc.calibration_len), loc.position + 1,
                          Min(loc.position + PACKET_DATA_SIZE, loc.calibration_len))
       IN  \E f \in Arrivals(Replies(DEVICE_IMU_MSG_CAL_DATA_GET_NEXT_SEGMENT, sent)) :
             LET r == recv_payload_msg(recvPacket, DEVICE_IMU_MSG_CAL_DATA_GET_NEXT_SEGMENT, next,
                         SubSeq(loc.calibration_data, loc.position + 1, Len(loc.calibration_data)), f)
                 position == IF r.ok THEN Advance(loc.position, next) ELSE loc.position
             IN  /\ loc' = [loc EXCEPT
                       !.calibration_data = StoreAt(@, loc.position, r.data),
                       !.position = position]
                 /\ call' = [call EXCEPT
                       !.io = Append(@, Read(DEVICE_IMU_MSG_CAL_DATA_GET_NEXT_SEGMENT, r.ok)),
                       !.asks = Append(@, next),
                       !.segs = IF r.ok THEN Append(@, Prefix(f.data, next)) ELSE @,
                       !.segFailed = @ \/ ~r.ok]
                 /\ pc' = IF r.ok /\ position < loc.calibration_len
                          THEN "open_seg_send" ELSE "open_parse"

\* what the indeterminate bytes of the buffer can hold when they are read: zeros,
\* or the text of an earlier download of the same blob (a recycled block)
Determined(buffer, heap) ==
    [i \in 1..Len(buffer) |->
        IF buffer[i] # Indeterminate THEN buffer[i]
        ELSE IF heap = "recycled" /\ i < Len(buffer) THEN BlobByte(i) ELSE 0]

\* lines 287-322: the terminator, the parse, the record installed from the document
OpenParse ==
    /\ pc = "open_parse"
    /\ \E kind \in {"json", "text"}, heap \in {"zeros", "recycled"} :
         LET buffer == [loc.calibration_data EXCEPT ![loc.calibration_len + 1] = 0]
             dev1 == ParseDocument(Determined(buffer, heap), loc.calibration_len, kind)
         IN  device' = [device EXCEPT !.calibration = InstallCalibration(@, dev1)]
    /\ pc' = "open_start"
    /\ loc' = NoLoc
    /\ UNCHANGED <<iron, stale, call, rd, ncal>>
    /\ UNCHANGED framing

\* a start that sets up the drift tracker and the fusion engine whether or not
\* the start signal was sent
OpenStartAnyway ==
    /\ pc = "open_start"
    /\ UNCHANGED <<iron, rd, ncal>>
    /\ UNCHANGED framing
    /\ \E w \in WriteOutcomes :
         LET s == send_payload_msg_signal(sendPacket, DEVICE_IMU_MSG_START_IMU_DATA, 1, w)
             c == [call EXCEPT !.io = Append(@, Wrote(DEVICE_IMU_MSG_START_IMU_DATA, <<1>>, s.ok))]
         IN  /\ device' = [device EXCEPT
                    !.offset = [alloc |-> TRUE, gyro |-> FUSION_VECTOR_ZERO],
                    !.ahrs = [alloc |-> TRUE, q |-> "finite"]]
             /\ Return(IF s.ok THEN "NO_ERROR" ELSE "PAYLOAD_FAILED", c)

\* lines 324-350: the start signal, the drift tracker and the fusion engine
OpenStart ==
    /\ pc = "open_start"
    /\ UNCHANGED <<iron, rd, ncal>>
    /\ UNCHANGED framing
    /\ \E w \in WriteOutcomes :
         LET s == send_payload_msg_signal(sendPacket, DEVICE_IMU_MSG_START_IMU_DATA, 1, w)
             c == [call EXCEPT !.io = Append(@, Wrote(DEVICE_IMU_MSG_START_IMU_DATA, <<1>>, s.ok))]
         IN  IF ~s.ok
             THEN device' = device /\ Return("PAYLOAD_FAILED", c)
             ELSE /\ device' = [device EXCEPT
                        !.offset = [alloc |-> TRUE, gyro |-> FUSION_VECTOR_ZERO],
                        !.ahrs = [alloc |-> TRUE, q |-> "finite"]]
                  /\ Return("NO_ERROR", c)

----------------------------------------------------------------------------
(* device_imu_read, called by the application                              *)

\* the orientations the fusion engine can come to hold on this read
Outcomes(f) == IF device.ahrs.alloc /\ IsDataFrame(f) THEN Orientations ELSE {"finite"}

device_imu_read_call ==
    /\ pc = "idle"
    /\ \E f \in (IF device.handle.alloc THEN StreamFrames ELSE {NoFrame}) :
       \E q \in Outcomes(f) :
         LET r == device_imu_read(device, iron, ReadTimeout, f, q)
         IN  /\ device' = r.device
             /\ iron' = r.iron
             /\ rd' = ReadObservation(r)
             /\ Return(r.ret, [op |-> "read", ret |-> "pending"])
    /\ UNCHANGED ncal
    /\ UNCHANGED framing

----------------------------------------------------------------------------
(* device_imu_calibrate, one action per read of the transport              *)

RECURSIVE Factorial(_)
Factorial(n) == IF n <= 1 THEN 1 ELSE n * Factorial(n - 1)

\* The offsets are kept in units of 1/CalDen of a degree (gyroscope: pi/180/CalDen
\* rad) and of GRAVITY_G/CalDen (accelerometer), so that factor = 1/iterations is
\* exact for every iteration count of the model.
CalDen == Factorial(MaxIter + 1)

\* line 718: factor = iterations > 0 ? 1.0f / iterations : 0.0f
Factor(iterations) == IF iterations > 0 THEN CalDen \div iterations ELSE 0

\* a local no value was assigned to
Unset == <<>>

\* the observation of a calibrate call: reads counts its transport reads, consumed
\* and skipped the frames, gyroSum the sum of the remapped gyroscope readings
CalCall(n, gyro, accel, magnet) ==
    [ op |-> "calibrate", ret |-> "pending", n |-> n, gyro |-> gyro, accel |-> accel,
      magnet |-> magnet, reads |-> 0, consumed |-> 0, skipped |-> 0, uncounted |-> FALSE,
      gyroSum |-> FUSION_VECTOR_ZERO, gyroLast |-> Unset, accelFirst |-> Unset, accelLast |-> Unset,
      pre |-> device.calibration ]

\* a store that writes every field, whatever was selected
CalibrateStoreAll(cal, l, gyro, accel, magnet) ==
    IF l.factor > 0
    THEN [cal EXCEPT
            !.gyroscopeOffset =
                FusionVectorAdd(@, FusionVectorMultiplyScalar(l.cal_gyroscope, l.factor)),
            !.accelerometerOffset =
                FusionVectorAdd(@, FusionVectorMultiplyScalar(l.cal_accelerometer, l.factor)),
            !.softIronMatrix = l.softIronMatrix,
            !.hardIronOffset = l.hardIronOffset]
    ELSE cal

\* lines 777-802: the selected fields of the record, from the locals l
CalibrateStore(cal, l, gyro, accel, magnet) ==
    LET c1 == IF gyro
              THEN [cal EXCEPT !.gyroscopeOffset =
                       FusionVectorAdd(@, FusionVectorMultiplyScalar(l.cal_gyroscope, l.factor))]
              ELSE cal
        c2 == IF accel
              THEN [c1 EXCEPT !.accelerometerOffset =
                       FusionVectorAdd(@, FusionVectorMultiplyScalar(l.cal_accelerometer, l.factor))]
              ELSE c1
        c3 == IF magnet
              THEN [c2 EXCEPT !.softIronMatrix = l.softIronMatrix,
                              !.hardIronOffset = l.hardIronOffset]
              ELSE c2
    IN  IF l.factor > 0 THEN c3 ELSE cal

\* lines 687-705: the checks device_imu_calibrate makes before it reads anything
CalibrateChecks(d) ==
    IF ~d.handle.alloc THEN "NO_HANDLE"
    ELSE IF ~d.calibration.alloc THEN "NO_ALLOCATION"
    ELSE "NO_ERROR"

\* lines 706-721: the locals; with no iteration asked the call is over
CalibrateBegin ==
    /\ pc = "idle"
    /\ ncal < MaxCal
    /\ ncal' = ncal + 1
    /\ rd' = NoRd
    /\ UNCHANGED <<device, iron>>
    /\ UNCHANGED framing
    /\ \E iterations \in 0..MaxIter, gyro \in BOOLEAN, accel \in BOOLEAN, magnet \in BOOLEAN :
         LET c == CalCall(iterations, gyro, accel, magnet)
             checked == CalibrateChecks(device)
         IN  IF checked # "NO_ERROR" THEN Return(checked, c)
             ELSE IF iterations = 0 THEN Return("NO_ERROR", c)
             ELSE /\ pc' = "cal_read"
                  /\ call' = c
                  /\ stale' = stale
                  /\ loc' = [ iterations |-> iterations, factor |-> Factor(iterations),
                              initialized |-> FALSE, cal_gyroscope |-> Unset,
                              cal_accelerometer |-> Unset, prev_accel |-> Unset,
                              softIronMatrix |-> Unset, hardIronOffset |-> Unset ]

\* lines 752-774: the accumulators after one data frame
Accumulate(l, gyroscope, accelerometer, est) ==
    [ l EXCEPT
        !.cal_gyroscope = IF l.initialized THEN FusionVectorAdd(@, gyroscope) ELSE gyroscope,
        !.cal_accelerometer = IF l.initialized
                              THEN FusionVectorAdd(@, FusionVectorSubtract(accelerometer, l.prev_accel))
                              ELSE FUSION_VECTOR_ZERO,
        !.prev_accel = accelerometer,
        !.softIronMatrix = est.softIronMatrix,
        !.hardIronOffset = est.hardIronOffset,
        !.iterations = @ - 1 ]

\* a skipped frame that counts as an iteration
ContinueCounted(l) == [l EXCEPT !.iterations = @ - 1]

\* lines 735-737 and 744-746: continue, with the locals as they are
Continue(l) == l

\* lines 721-805: one pass of the loop, and what follows the loop when it was the last
CalibrateRead ==
    /\ pc = "cal_read"
    /\ UNCHANGED <<rd, ncal>>
    /\ UNCHANGED framing
    /\ \E f \in StreamFrames :
         LET transferred == hid_read(f, MAX_PACKET_SIZE)
             c == [call EXCEPT !.reads = @ + 1]
         IN  IF transferred = -1
             THEN UNCHANGED <<device, iron>> /\ Return("UNPLUGGED", c)
             ELSE IF transferred = 0 \/ (transferred = MAX_PACKET_SIZE /\ f.sig # SIG_DATA)
             THEN /\ call.skipped < MaxSkip
                  /\ call' = [c EXCEPT !.skipped = @ + 1]
                  /\ loc' = Continue(loc)
                  /\ UNCHANGED <<device, iron, pc, stale>>
             ELSE IF MAX_PACKET_SIZE # transferred
             THEN UNCHANGED <<device, iron>> /\ Return("UNEXPECTED", c)
             ELSE LET gyroscope == pre_biased_coordinate_system(f.gyro)
                      accelerometer == pre_biased_coordinate_system(f.accel)
                      magnetometer == pre_biased_coordinate_system(f.mag)
                      est == iterate_iron_offset_estimation(iron, magnetometer)
                      l == Accumulate(loc, gyroscope, accelerometer, est)
                      c1 == [c EXCEPT !.consumed = @ + 1,
                                      !.gyroSum = FusionVectorAdd(@, gyroscope),
                                      !.gyroLast = gyroscope,
                                      !.accelFirst = IF @ = Unset THEN accelerometer ELSE @,
                                      !.accelLast = accelerometer]
                  IN  /\ iron' = est.iron
                      /\ IF l.iterations > 0
                         THEN /\ loc' = l
                              /\ call' = c1
                              /\ UNCHANGED <<device, pc, stale>>
                         ELSE /\ device' = [device EXCEPT !.calibration =
                                     CalibrateStore(@, l, call.gyro, call.accel, call.magnet)]
                              /\ Return("NO_ERROR", c1)

----------------------------------------------------------------------------
(* device_imu_close                                                        *)

\* a close that releases what is allocated and leaves the fields as they are
device_imu_close_keeps ==
    /\ pc = "idle"
    /\ device' = device
    /\ rd' = NoRd
    /\ Return("NO_ERROR", [ op |-> "close", ret |-> "pending",
                            freed |-> [ calibration |-> device.calibration.alloc,
                                        ahrs |-> device.ahrs.alloc,
                                        offset |-> device.offset.alloc,
                                        handle |-> device.handle.alloc ] ])
    /\ UNCHANGED <<iron, ncal>>
    /\ UNCHANGED framing

\* lines 951-977
device_imu_close ==
    /\ pc = "idle"
    /\ device' = ZeroDevice
    /\ rd' = NoRd
    /\ Return("NO_ERROR", [ op |-> "close", ret |-> "pending",
                            freed |-> [ calibration |-> device.calibration.alloc,
                                        ahrs |-> device.ahrs.alloc,
                                        offset |-> device.offset.alloc,
                                        handle |-> device.handle.alloc ] ])
    /\ UNCHANGED <<iron, ncal>>
    /\ UNCHANGED framing

----------------------------------------------------------------------------
(* The session                                                             *)

Open ==
    \/ OpenBegin
    \/ OpenStop
    \/ OpenClear
    \/ OpenSendStaticId
    \/ OpenRecvStaticId
    \/ OpenSendCalLen
    \/ OpenRecvCalLen
    \/ OpenSegSend
    \/ OpenSegRecv
    \/ OpenParse
    \/ OpenStart

\* an application that opens, reads the stream and closes, in any order
Next ==
    \/ Open
    \/ device_imu_read_call
    \/ device_imu_close
    \/ Resume

Spec == Init /\ [][Next]_vars

\* an application that opens, calibrates and closes, in any order
NextCal ==
    \/ Open
    \/ CalibrateBegin
    \/ CalibrateRead
    \/ device_imu_close
    \/ Resume

SpecCal == Init /\ [][NextCal]_vars

----------------------------------------------------------------------------
(* The framing functions on their own, with the static packets carried     *)

session == <<device, iron, pc, loc, stale, call, rd, ncal>>

\* the payload lengths a message can carry
PayloadLens == 0..PACKET_DATA_SIZE

\* the payload bytes of the message sent, and those of the message before it
Payload(len) == [i \in 1..len |-> (3 * i + 1) % 256]
EarlierPayload(len) == [i \in 1..len |-> 255 - i]

\* what the static packet of send_payload_msg holds: nothing yet, or an earlier message
InitSend ==
    /\ InitBut({"sendPacket"})
    /\ sendPacket \in {ZeroSendPacket} \cup
           { FillPacket(ZeroSendPacket, DEVICE_IMU_MSG_GET_STATIC_ID, len, EarlierPayload(len)) :
               len \in PayloadLens }

\* one call of send_payload_msg
SendMsg ==
    /\ tx = NoTx
    /\ \E msgid \in {DEVICE_IMU_MSG_START_IMU_DATA, DEVICE_IMU_MSG_CAL_DATA_GET_NEXT_SEGMENT},
          len \in PayloadLens, w \in WriteOutcomes :
         LET s == send_payload_msg(sendPacket, msgid, len, Payload(len), w)
         IN  /\ sendPacket' = s.packet
             /\ tx' = [ ret |-> IF s.ok THEN "true" ELSE "false", msgid |-> msgid, len |-> len,
                        data |-> Payload(len), asked |-> s.asked, bytes |-> s.bytes,
                        accepted |-> hid_write(s.asked, w), before |-> sendPacket ]
    /\ UNCHANGED <<recvPacket, rx>>
    /\ UNCHANGED session

NextSend == SendMsg

SpecSend == InitSend /\ [][NextSend]_vars

\* the caller's buffer before the call
CallerBuffer(len) == [i \in 1..len |-> 200]

\* what the static packet of recv_payload_msg holds: nothing yet, or an earlier report
InitRecv ==
    /\ InitBut({"recvPacket"})
    /\ recvPacket \in { ZeroRecvPacket,
           ReceivedPacket(ZeroRecvPacket,
               ReplyFrame(DEVICE_IMU_MSG_GET_STATIC_ID, EarlierPayload(PACKET_DATA_SIZE)),
               MAX_PACKET_SIZE) }

\* the reports a call waiting for msgid and len bytes can meet: of the expected or
\* another msgid, the read failing or giving nothing, fewer bytes, the bytes asked
\* for, or a whole report
Reports(msgid, len) ==
    { [ReplyFrame(m, Payload(PACKET_DATA_SIZE)) EXCEPT !.size = size] :
        m \in {msgid, U8(msgid + 1), 0},
        size \in {-1, 0, PACKET_HEAD_SIZE + PACKET_LEN_BASE - 1, PACKET_HEAD_SIZE + PACKET_LEN_BASE + len - 1,
                  PACKET_HEAD_SIZE + PACKET_LEN_BASE + len, MAX_PACKET_SIZE} }

\* one call of recv_payload_msg
RecvMsg ==
    /\ rx = NoRx
    /\ \E msgid \in {DEVICE_IMU_MSG_GET_CAL_DATA_LENGTH, DEVICE_IMU_MSG_CAL_DATA_GET_NEXT_SEGMENT},
          len \in PayloadLens :
       \E f \in Reports(msgid, len) :
         LET r == recv_payload_msg(recvPacket, msgid, len, CallerBuffer(len), f)
         IN  /\ recvPacket' = r.packet
             /\ rx' = [ ret |-> IF r.ok THEN "true" ELSE "false", msgid |-> msgid, len |-> len,
                        frame |-> f, reads |-> r.reads, data |-> r.data,
                        before |-> CallerBuffer(len) ]
    /\ UNCHANGED <<sendPacket, tx>>
    /\ UNCHANGED session

NextRecv == RecvMsg

SpecRecv == InitRecv /\ [][NextRecv]_vars

----------------------------------------------------------------------------
(* Properties                                                              *)

RECURSIVE Concat(_)
Concat(ss) == IF ss = <<>> THEN <<>> ELSE Head(ss) \o Concat(Tail(ss))

\* the download loop of open is over and no segment exchange has failed
DownloadComplete == pc = "open_parse" /\ ~call.segFailed

\* C1: when the length reply announces L bytes and every segment exchange
\* succeeds, the download makes exactly ceil(L/56) request/reply round trips, the
\* k-th asking for min(56, L - 56(k-1)) bytes; the loop ends with position = L and
\* the buffer holds the received segment payloads, concatenated in order.
C1_SegmentedDownload ==
    DownloadComplete =>
        LET L == call.announced
            trips == (L + PACKET_DATA_SIZE - 1) \div PACKET_DATA_SIZE
        IN  /\ call.segSends = trips
            /\ Len(call.asks) = trips
            /\ Len(call.segs) = trips
            /\ \A k \in 1..trips : call.asks[k] = Min(PACKET_DATA_SIZE, L - PACKET_DATA_SIZE * (k - 1))
            /\ loc.position = L
            /\ Prefix(loc.calibration_data, L) = Concat(call.segs)
            /\ Concat(call.segs) = Blob(L)

\* a download of 130 bytes in segments of 56, 56 and 18
C1_Witness ==
    /\ DownloadComplete
    /\ call.announced = 130
    /\ call.asks = <<56, 56, 18>>
    /\ loc.position = 130

\* device_imu_open has returned after a download in which a segment exchange failed
ReturnedAfterFailedSegment == pc = "done" /\ call.op = "open" /\ call.segFailed

\* C2: if a 'next segment' send or receive fails during the download, no further
\* segment is requested and, when open returns, the calibration record still
\* holds its reset defaults.
C2_FailedSegmentKeepsDefaults ==
    ReturnedAfterFailedSegment =>
        /\ ~call.sentAfterFail
        /\ device.calibration = ResetCalibration

\* the part of C2 the code keeps: no segment is requested after the failed one
C2_NoRequestAfterFailure ==
    call.op = "open" /\ call.segFailed => ~call.sentAfterFail

\* open returns with the record overwritten from a document that did not parse
C2_Overwritten ==
    /\ ReturnedAfterFailedSegment
    /\ device.calibration.gyroscopeSensitivity = FUSION_VECTOR_ZERO
    /\ device.calibration.noises = FUSION_IDENTITY_QUATERNION

\* C3: recv_payload_msg(expectedMsgid, expectedLen) makes exactly one transport
\* read, of 5 + 3 + expectedLen bytes, and succeeds only if that many bytes
\* arrived and the msgid of the frame is the expected one; on a msgid mismatch it
\* fails, leaves the caller's buffer as it was and reads nothing further.
C3_ReceiveOneFrame ==
    rx # NoRx =>
        LET wanted == PACKET_HEAD_SIZE + PACKET_LEN_BASE + rx.len
        IN  /\ rx.reads = <<wanted>>
            /\ rx.ret = "true" => /\ hid_read(rx.frame, wanted) = wanted
                                  /\ rx.frame.msgid = rx.msgid
            /\ rx.frame.msgid # rx.msgid => /\ rx.ret = "false"
                                            /\ rx.data = rx.before
                                            /\ Len(rx.reads) = 1

\* a whole report with another msgid met a call that expected 56 bytes
C3_Witness ==
    /\ rx # NoRx
    /\ rx.len = PACKET_DATA_SIZE
    /\ rx.frame.size = MAX_PACKET_SIZE
    /\ rx.frame.msgid = U8(rx.msgid + 1)
    /\ rx.ret = "false"
    /\ rx.data = CallerBuffer(PACKET_DATA_SIZE)

\* a received payload is the frame's, whatever the static packet held before
RecvFresh ==
    rx # NoRx /\ rx.ret = "true" => rx.data = Prefix(rx.frame.data, rx.len)

\* the bytes of the message (msgid, payload) as the wire format lays them out
WireBytes(msgid, payload) ==
    LET region == LE16(PACKET_LEN_BASE + Len(payload)) \o <<msgid>> \o payload
    IN  <<PACKET_HEAD>> \o LE32(crc32_checksum(region, Len(region))) \o region

\* C4: for every msgid and payload of n bytes, 0 <= n <= 56, and whatever was sent
\* before, send_payload_msg hands the transport exactly 5 + (3 + n) bytes in one
\* write: head 0xAA, the checksum over length ++ msgid ++ payload, length = 3 + n,
\* msgid and the n payload bytes, none left from an earlier send; it returns
\* success if and only if the transport accepted all of them.
C4_SendExactFrame ==
    tx # NoTx =>
        /\ tx.asked = PACKET_HEAD_SIZE + PACKET_LEN_BASE + tx.len
        /\ tx.bytes = WireBytes(tx.msgid, tx.data)
        /\ Len(tx.bytes) = tx.asked
        /\ (tx.ret = "true") <=> (tx.accepted = PACKET_HEAD_SIZE + PACKET_LEN_BASE + tx.len)

\* a 2-byte message sent after a 56-byte one, all of it accepted
C4_Witness ==
    /\ tx # NoTx
    /\ tx.len = 2
    /\ tx.before.length = PACKET_LEN_BASE + PACKET_DATA_SIZE
    /\ tx.before.data = EarlierPayload(PACKET_DATA_SIZE)
    /\ tx.ret = "true"
    /\ Len(tx.bytes) = 10

\* no byte of an earlier message is in what a send writes
SendFresh ==
    tx # NoTx => tx.bytes = send_payload_msg(ZeroSendPacket, tx.msgid, tx.len, tx.data, "full").bytes

\* a device_imu_read has run on a session with a handle: rd is what it did
HasRead == rd # NoRd /\ rd.pre.device.handle.alloc

\* the result the outcomes of C5 give for a frame that is not a sample, in their order
ResultInOrder(f) ==
    IF f.size = -1 THEN "UNPLUGGED"
    ELSE IF f.size = 0 THEN "NO_ERROR"
    ELSE IF f.size # MAX_PACKET_SIZE THEN "UNEXPECTED"
    ELSE IF f.sig = <<170, 83>> THEN "NO_ERROR"
    ELSE "WRONG_SIGNATURE"

\* the frame was decoded as a sample: its timestamp and temperature were stored
DecodedAsSample ==
    /\ device.last_timestamp = U64(rd.frame.ts)
    /\ device.temperature = Temperature(rd.frame.temp)

\* C5: device_imu_read on a session with a handle makes exactly one transport
\* read and decides in this order: -1 gives UNPLUGGED, 0 bytes NO_ERROR, another
\* count than 64 UNEXPECTED, signature (0xAA,0x53) NO_ERROR, a signature other
\* than (0x01,0x02) WRONG_SIGNATURE; only a full frame with signature (0x01,0x02)
\* is decoded as a sample.
C5_ReadOutcomeOrder ==
    HasRead =>
        /\ Len(rd.reads) = 1
        /\ IF rd.frame.size = MAX_PACKET_SIZE /\ rd.frame.sig = <<1, 2>>
           THEN DecodedAsSample /\ rd.ret \in {"NO_ERROR", "INVALID_VALUE"}
           ELSE /\ rd.ret = ResultInOrder(rd.frame)
                /\ rd.fusion = <<>>
                /\ device.last_timestamp = rd.pre.device.last_timestamp
                /\ device.temperature = rd.pre.device.temperature

\* a 63-byte frame with the data signature, read by the application: UNEXPECTED
C5_Witness ==
    /\ HasRead
    /\ pc = "done" /\ call.op = "read"
    /\ rd.frame = ShortFrame
    /\ rd.reads = <<ReadTimeout>>
    /\ rd.ret = "UNEXPECTED"

\* C6: a device_imu_read dispatches at most one event to the caller's callback; a
\* full frame with signature (0xAA,0x53) dispatches exactly one INIT event with
\* that frame's timestamp; no event is dispatched when the call returns an error
\* or the transport delivered zero bytes.
C6_AtMostOneEvent ==
    rd # NoRd =>
        /\ Len(rd.events) <= 1
        /\ HasRead /\ rd.pre.device.callback /\ IsInitFrame(rd.frame) =>
              /\ Len(rd.events) = 1
              /\ rd.events[1].event = "INIT"
              /\ rd.events[1].timestamp = U64(rd.frame.ts)
        /\ rd.ret # "NO_ERROR" \/ rd.frame.size = 0 => rd.events = <<>>

\* an INIT frame read after a data frame, with a callback registered
C6_Witness ==
    /\ HasRead
    /\ pc = "done" /\ call.op = "read"
    /\ rd.pre.device.callback
    /\ rd.pre.device.last_timestamp = U64(DataFrame1.ts)
    /\ rd.frame = InitFrame
    /\ Len(rd.events) = 1
    /\ rd.events[1].timestamp = U64(InitFrame.ts)

\* C7: device_imu_read leaves last_timestamp, temperature, the calibration record,
\* the iron extrema and the state of the fusion engine and the drift tracker as
\* they were on every outcome but a full frame with the data signature.
C7_OnlyDataFramesWork ==
    rd # NoRd /\ ~IsDataFrame(rd.frame) =>
        /\ device.last_timestamp = rd.pre.device.last_timestamp
        /\ device.temperature = rd.pre.device.temperature
        /\ device.calibration = rd.pre.device.calibration
        /\ device.ahrs = rd.pre.device.ahrs
        /\ device.offset = rd.pre.device.offset
        /\ iron = rd.pre.iron
        /\ rd.fusion = <<>>

\* a frame with another signature read in a session that had processed a data frame
C7_Witness ==
    /\ HasRead
    /\ pc = "done" /\ call.op = "read"
    /\ rd.frame = OtherFrame
    /\ rd.ret = "WRONG_SIGNATURE"
    /\ device.ahrs.alloc
    /\ device.last_timestamp = U64(DataFrame2.ts)
    /\ iron # IronInit

\* a data frame went through the fusion engine, and a callback is registered
FusedDataFrame ==
    /\ HasRead
    /\ IsDataFrame(rd.frame)
    /\ rd.pre.device.ahrs.alloc
    /\ rd.pre.device.callback

\* C8: for a data frame an UPDATE event is dispatched if and only if no component
\* of the orientation read back from the fusion engine is non-finite; if one is
\* (NaN or infinite) the call returns INVALID_VALUE and the event is suppressed.
C8_UpdateIffFinite ==
    FusedDataFrame =>
        /\ (rd.events # <<>>) <=> (device.ahrs.q = "finite")
        /\ device.ahrs.q # "finite" => rd.ret = "INVALID_VALUE" /\ rd.events = <<>>

\* an orientation with an infinite component and none NaN: UPDATE is dispatched
C8_InfiniteDispatched ==
    /\ FusedDataFrame
    /\ device.ahrs.q = "inf"
    /\ rd.ret = "NO_ERROR"
    /\ Len(rd.events) = 1
    /\ rd.events[1].event = "UPDATE"

\* what the code does keep of C8: a NaN component suppresses the event
C8_NaNSuppressed ==
    FusedDataFrame =>
        /\ device.ahrs.q = "nan" => rd.ret = "INVALID_VALUE" /\ rd.events = <<>>
        /\ device.ahrs.q # "nan" => rd.ret = "NO_ERROR" /\ Len(rd.events) = 1

\* C9: a device_imu_calibrate(iterations = n) that returns NO_ERROR has consumed
\* exactly n full frames with the data signature; zero-byte reads and full frames
\* with another signature are skipped and do not lower the remaining count; with
\* n = 0 it reads nothing.
C9_ConsumesExactlyN ==
    call.op = "calibrate" =>
        /\ pc = "cal_read" => /\ loc.iterations = call.n - call.consumed
                              /\ loc.iterations > 0
                              /\ call.reads = call.consumed + call.skipped
        /\ pc = "done" /\ call.ret = "NO_ERROR" =>
              /\ call.consumed = call.n
              /\ call.reads = call.n + call.skipped
              /\ call.n = 0 => call.reads = 0

\* a calibration over two data frames that met one frame to skip
C9_Witness ==
    /\ pc = "done" /\ call.op = "calibrate" /\ call.ret = "NO_ERROR"
    /\ call.n = 2
    /\ call.consumed = 2
    /\ call.skipped = 1
    /\ call.reads = 3

\* a calibration of the gyroscope over n >= 1 data frames has returned
GyroCalibrated ==
    /\ pc = "done" /\ call.op = "calibrate" /\ call.ret = "NO_ERROR"
    /\ call.n >= 1
    /\ call.gyro

\* n times what the call added to the gyroscope offset, in units of pi/180/CalDen
GyroIncreaseTimesN ==
    FusionVectorMultiplyScalar(
        FusionVectorSubtract(device.calibration.gyroscopeOffset, call.pre.gyroscopeOffset),
        call.n)

\* C10: the gyroscope accumulator is the running sum of the readings of the data
\* frames consumed, so that after n >= 1 frames with remapped readings g_1..g_n
\* and doGyro set the gyroscope offset has increased by ((g_1+...+g_n)/n) * pi/180.
C10_GyroOffsetByMean ==
    GyroCalibrated => GyroIncreaseTimesN = FusionVectorMultiplyScalar(call.gyroSum, CalDen)

\* what the code adds instead: the last reading alone, divided by n
C10_GyroOffsetByLast ==
    GyroCalibrated => GyroIncreaseTimesN = FusionVectorMultiplyScalar(call.gyroLast, CalDen)

\* two data frames whose readings differ: the offset moved by less than their mean
C10_FirstReadingLost ==
    /\ GyroCalibrated
    /\ call.n = 2
    /\ call.gyroSum # FusionVectorMultiplyScalar(call.gyroLast, 2)
    /\ GyroIncreaseTimesN = FusionVectorMultiplyScalar(call.gyroLast, CalDen)

\* a calibration of the accelerometer over n >= 2 data frames has returned
AccelCalibrated ==
    /\ pc = "done" /\ call.op = "calibrate" /\ call.ret = "NO_ERROR"
    /\ call.n >= 2
    /\ call.accel

\* n times what the call added to the accelerometer offset, in units of GRAVITY_G/CalDen
AccelIncreaseTimesN ==
    FusionVectorMultiplyScalar(
        FusionVectorSubtract(device.calibration.accelerometerOffset, call.pre.accelerometerOffset),
        call.n)

\* C11: the accelerometer accumulator is the running sum of the differences of
\* consecutive data frames, so that after n >= 2 frames with readings a_1..a_n
\* and doAccel set the accelerometer offset has increased by ((a_n - a_1)/n) * 9.806.
C11_AccelOffsetByDifferences ==
    AccelCalibrated =>
        AccelIncreaseTimesN =
            FusionVectorMultiplyScalar(FusionVectorSubtract(call.accelLast, call.accelFirst), CalDen)

\* what the code adds instead: nothing, the accumulator is zero after every frame
C11_AccelOffsetStays ==
    pc = "done" /\ call.op = "calibrate" /\ device.calibration.alloc =>
        device.calibration.accelerometerOffset = call.pre.accelerometerOffset

\* two data frames whose accelerometer readings differ, and the offset did not move
C11_DifferenceLost ==
    /\ AccelCalibrated
    /\ call.n = 2
    /\ call.accelLast # call.accelFirst
    /\ device.calibration.accelerometerOffset = call.pre.accelerometerOffset

\* the record with the four fields device_imu_calibrate can write taken from another
WithCalibrated(cal, from) ==
    [cal EXCEPT !.gyroscopeOffset = from.gyroscopeOffset,
                !.accelerometerOffset = from.accelerometerOffset,
                !.softIronMatrix = from.softIronMatrix,
                !.hardIronOffset = from.hardIronOffset]

\* a device_imu_calibrate that got past its checks has returned
CalibrateReturned ==
    pc = "done" /\ call.op = "calibrate" /\ call.pre.alloc /\ call.ret # "NO_HANDLE"

\* C12: device_imu_calibrate writes the calibration record only when it completes
\* with iterations > 0, and then only the selected fields: gyroscopeOffset only
\* if doGyro, accelerometerOffset only if doAccel, softIronMatrix and
\* hardIronOffset only if doMagnet (then overwritten with the estimate); when it
\* aborts with UNPLUGGED or UNEXPECTED the record is as it was before the call.
C12_WritesSelectedFields ==
    /\ pc = "cal_read" => device.calibration = call.pre
    /\ pc = "done" /\ call.op = "calibrate" /\ (call.ret # "NO_ERROR" \/ call.n = 0) =>
          device.calibration = call.pre
    /\ CalibrateReturned =>
          LET now == device.calibration
              est == iterate_iron_offset_estimation(iron, FUSION_VECTOR_ZERO)
          IN  /\ WithCalibrated(now, call.pre) = call.pre
              /\ ~call.gyro => now.gyroscopeOffset = call.pre.gyroscopeOffset
              /\ ~call.accel => now.accelerometerOffset = call.pre.accelerometerOffset
              /\ ~call.magnet => /\ now.softIronMatrix = call.pre.softIronMatrix
                                 /\ now.hardIronOffset = call.pre.hardIronOffset
              /\ call.magnet /\ call.ret = "NO_ERROR" /\ call.n > 0 =>
                    /\ now.softIronMatrix.den = FusionVectorSubtract(iron.max, iron.min)
                    /\ now.hardIronOffset.num = FusionVectorAdd(iron.min, iron.max)

\* a completed calibration of the gyroscope alone: its offset moved, the iron fields did not
C12_Witness ==
    /\ CalibrateReturned
    /\ call.ret = "NO_ERROR" /\ call.n = 2
    /\ call.gyro /\ ~call.accel /\ ~call.magnet
    /\ device.calibration.gyroscopeOffset # call.pre.gyroscopeOffset
    /\ device.calibration.softIronMatrix = call.pre.softIronMatrix
    /\ iron # IronInit

\* a calibration that had consumed a data frame when the transport failed
C12_Aborted ==
    /\ CalibrateReturned
    /\ call.ret = "UNPLUGGED"
    /\ call.consumed = 1
    /\ call.gyro /\ call.magnet
    /\ device.calibration = call.pre

\* the session is open and streaming: device_imu_open ran to its end (lines 324-350)
OpenStreaming == device.handle.alloc /\ device.ahrs.alloc /\ device.offset.alloc

\* C13: device_imu_calibrate requires an open streaming session: called on a
\* session in any other state (never opened, closed, or left partially
\* initialised by an open that failed) it returns an error and reads nothing
\* from the transport.
C13_RequiresOpenSession ==
    call.op = "calibrate" /\ ~OpenStreaming =>
        /\ call.reads = 0
        /\ pc = "done" => call.ret \in {"NO_DEVICE", "NO_HANDLE", "NO_ALLOCATION"}

\* what the checks at lines 692-700 do reject: a session without a handle
C13_RejectsWithoutHandle ==
    pc = "done" /\ call.op = "calibrate" /\ ~device.handle.alloc =>
        call.ret = "NO_HANDLE" /\ call.reads = 0

\* a calibration that read the transport and completed on a session whose open had failed
C13_PartialSessionCalibrated ==
    /\ pc = "done" /\ call.op = "calibrate"
    /\ device.handle.alloc /\ ~device.ahrs.alloc
    /\ call.ret = "NO_ERROR"
    /\ call.reads >= 1

\* the call has written message msgid to the transport, with result ok
Sent(msgid, ok) ==
    \E i \in DOMAIN call.io :
        call.io[i].dir = "W" /\ call.io[i].msgid = msgid /\ call.io[i].ok = ok

\* the request for the static id could not be sent
StaticIdSendFailed == Sent(DEVICE_IMU_MSG_GET_STATIC_ID, FALSE)

\* open went on to the calibration steps: it asked for the calibration length
WentOnToCalibration ==
    \E ok \in BOOLEAN : Sent(DEVICE_IMU_MSG_GET_CAL_DATA_LENGTH, ok)

\* open is past the exchange of the static id, or has returned
PastStaticId == pc \notin {"idle", "open_stop", "open_clear", "open_send_id", "open_recv_id"}

\* C14: a failure of the static-id request, of its send or of its receive, is
\* not fatal: static_id becomes the fallback 0x20220101 and open goes on to the
\* calibration steps; when the reply is received with the matching msgid,
\* static_id is the four bytes received.
C14_StaticIdNonFatal ==
    call.op = "open" =>
        /\ StaticIdSendFailed \/ call.idReply = "failed" =>
              /\ pc = "done" => WentOnToCalibration
              /\ PastStaticId => device.static_id = FALLBACK_STATIC_ID
        /\ call.idReply = "received" => device.static_id = DeviceStaticId

\* the part that holds: a failed receive gives the fallback and open goes on,
\* a received reply gives its four bytes
C14_ReceiveNonFatal ==
    call.op = "open" =>
        /\ call.idReply = "failed" =>
              /\ pc = "done" => WentOnToCalibration
              /\ device.static_id = FALLBACK_STATIC_ID
        /\ call.idReply = "received" => device.static_id = DeviceStaticId

\* open has returned PAYLOAD_FAILED because the static-id request could not be sent
C14_SendFailureFatal ==
    /\ pc = "done" /\ call.op = "open" /\ call.ret = "PAYLOAD_FAILED"
    /\ StaticIdSendFailed
    /\ ~WentOnToCalibration
    /\ device.static_id # FALLBACK_STATIC_ID
    /\ ~device.calibration.alloc

\* open is between its clear and the reply to the calibration-length request
AfterClear == pc \in {"open_send_id", "open_recv_id", "open_send_len", "open_recv_len"}

\* C15: after the stop signal open discards the stale frames, up to 10 of them,
\* before it asks for the static id: when k <= 10 frames are queued at the stop
\* signal, device_imu_clear consumes all k, and none is left to be read as the
\* reply to the static-id or the calibration-length request.
C15_ClearDiscardsStale ==
    call.op = "open" /\ AfterClear /\ MaxStale <= CLEAR_TIMEOUT => stale = 0

\* what the single read of device_imu_clear leaves: all but one of the queued frames
C15_ClearReadsOne ==
    call.op = "open" /\ pc = "open_send_id" => stale < MaxStale

\* clear has run, a stale frame is still queued, and open awaits the static-id reply
C15_StaleFrameAsReply ==
    /\ call.op = "open" /\ pc = "open_recv_id"
    /\ call.io[2] = Read("clear", TRUE)
    /\ stale = 1

\* nothing released
NothingFreed == [calibration |-> FALSE, ahrs |-> FALSE, offset |-> FALSE, handle |-> FALSE]

\* the step is a call of operation op by the application
Calls(op) == pc = "idle" /\ call'.op = op

C16_PartialClosed ==
    /\ pc = "done" /\ call.op = "close"
    /\ call.freed = [calibration |-> TRUE, ahrs |-> FALSE, offset |-> FALSE, handle |-> TRUE]
    /\ device = ZeroDevice

\* a device_imu_read called by the application has returned
ReadReturned == pc = "done" /\ call.op = "read"

\* the calibration record the read found
RecordBeforeRead == rd.pre.device.calibration

\* C17: every field of the calibration record keeps its value until a
\* successful download, a file load or a calibrate overwrites it; in
\* particular no device_imu_read changes any field of the record.
C17_ReadKeepsRecord ==
    ReadReturned => device.calibration = RecordBeforeRead

\* what a read does keep: every field but softIronMatrix and hardIronOffset
C17_ReadKeepsOtherFields ==
    ReadReturned /\ RecordBeforeRead.alloc =>
        [device.calibration EXCEPT !.softIronMatrix = RecordBeforeRead.softIronMatrix,
                                   !.hardIronOffset = RecordBeforeRead.hardIronOffset]
            = RecordBeforeRead

\* a read of a data frame returned NO_ERROR and the iron fields of the record are new
C17_ReadOverwritesIron ==
    /\ ReadReturned
    /\ rd.ret = "NO_ERROR" /\ IsDataFrame(rd.frame)
    /\ RecordBeforeRead.alloc
    /\ device.calibration.softIronMatrix # RecordBeforeRead.softIronMatrix
    /\ device.calibration.hardIronOffset # RecordBeforeRead.hardIronOffset

\* the magnetometer sample the read handed to the estimator (lines 650-664)
SampleOfRead ==
    LET cal == IF RecordBeforeRead.alloc THEN RecordBeforeRead ELSE ResetCalibration
    IN  FusionCalibrationInertial(pre_biased_coordinate_system(rd.frame.mag),
                                  cal.magnetometerMisalignment,
                                  cal.magnetometerSensitivity,
                                  cal.magnetometerOffset)

\* the read processed the first sample the estimator has ever seen
FirstSampleRead ==
    /\ ReadReturned
    /\ IsDataFrame(rd.frame)
    /\ rd.pre.iron = IronInit

\* C18: the iron estimator's maximum is, on each axis, the largest sample seen
\* so far and its minimum the smallest, over all reads and calibrations of any
\* session; here for the first sample ever seen, which is then both the largest
\* and the smallest.
C18_ExtremaAreSamples ==
    FirstSampleRead => iron.max = SampleOfRead /\ iron.min = SampleOfRead

\* the half that holds for the first sample: the minimum is the sample
C18_MinimumIsSample ==
    FirstSampleRead /\ (\A i \in 1..3 : ~FIsNaN(SampleOfRead[i])) => iron.min = SampleOfRead

\* the extrema are never reset: close and open leave them as they are
C18_NeverReset ==
    [][Calls("close") \/ Calls("open") => iron' = iron]_vars

\* the first sample is negative on an axis, and the maximum of that axis is FLT_MIN
C18_MaximumAboveSample ==
    /\ FirstSampleRead
    /\ \E i \in 1..3 : SampleOfRead[i] < 0 /\ ~FIsNaN(SampleOfRead[i]) /\ iron.max[i] = FLT_MIN
    /\ iron.min = SampleOfRead

----------------------------------------------------------------------------
(* The calibration file: device_imu_load_calibration and                   *)
(* device_imu_save_calibration.  The record is copied as its bytes, in the *)
(* order of the fields of struct device_imu_calibration_t (lines 51-68);   *)
(* a transfer is modelled up to the end of a field.                        *)

\* the fields of the record in the order of the struct, and the floats each holds
CalibrationFields ==
    << "gyroscopeMisalignment", "gyroscopeSensitivity", "gyroscopeOffset",
       "accelerometerMisalignment", "accelerometerSensitivity", "accelerometerOffset",
       "magnetometerMisalignment", "magnetometerSensitivity", "magnetometerOffset",
       "softIronMatrix", "hardIronOffset", "noises" >>

FieldFloats ==
    [ gyroscopeMisalignment |-> 9, gyroscopeSensitivity |-> 3, gyroscopeOffset |-> 3,
      accelerometerMisalignment |-> 9, accelerometerSensitivity |-> 3, accelerometerOffset |-> 3,
      magnetometerMisalignment |-> 9, magnetometerSensitivity |-> 3, magnetometerOffset |-> 3,
      softIronMatrix |-> 9, hardIronOffset |-> 3, noises |-> 4 ]

\* the offset in bytes of the end of field k; 0 for k = 0
RECURSIVE OffsetAfter(_)
OffsetAfter(k) ==
    IF k = 0 THEN 0 ELSE OffsetAfter(k - 1) + 4 * FieldFloats[CalibrationFields[k]]

\* sizeof(device_imu_calibration_type)
SizeofCalibration == OffsetAfter(Len(CalibrationFields))

\* the byte counts a transfer is modelled to stop at
Boundaries == { OffsetAfter(k) : k \in 0..Len(CalibrationFields) }

\* the fields that lie in the first count bytes
FieldsWithin(count) ==
    { CalibrationFields[k] : k \in { j \in 1..Len(CalibrationFields) : OffsetAfter(j) <= count } }

\* fread(record, 1, count): the first count bytes of the record are the file's
fread(record, content, count) ==
    [ f \in DOMAIN record |-> IF f \in FieldsWithin(count) THEN content[f] ELSE record[f] ]

\* fwrite(record, 1, count): the fields that reached the file
fwrite(record, count) == [ f \in FieldsWithin(count) |-> record[f] ]

\* what a file operation reports: fopens and fcloses count the calls made
FileResult(dev, ret, count, fopens, fcloses, written) ==
    [ device |-> dev, ret |-> ret, count |-> count, fopens |-> fopens, fcloses |-> fcloses,
      written |-> written ]

NothingWritten == fwrite(ResetCalibration, 0)

\* lines 382-415; null: the device pointer is NULL; opened: fopen gave a file;
\* count: what fread returns; closed: fclose returned 0
device_imu_load_calibration(null, dev, opened, content, count, closed) ==
    IF null THEN FileResult(dev, "NO_DEVICE", 0, 0, 0, NothingWritten)
    ELSE IF ~dev.calibration.alloc THEN FileResult(dev, "NO_ALLOCATION", 0, 0, 0, NothingWritten)
    ELSE IF ~opened THEN FileResult(dev, "FILE_NOT_OPEN", 0, 1, 0, NothingWritten)
    ELSE LET d == [dev EXCEPT !.calibration = fread(@, content, count)]
             result == IF SizeofCalibration # count THEN "LOADING_FAILED" ELSE "NO_ERROR"
         IN  IF ~closed THEN FileResult(d, "FILE_NOT_CLOSED", count, 1, 1, NothingWritten)
             ELSE FileResult(d, result, count, 1, 1, NothingWritten)

\* lines 417-450; count: what fwrite returns
device_imu_save_calibration(null, dev, opened, count, closed) ==
    IF null THEN FileResult(dev, "NO_DEVICE", 0, 0, 0, NothingWritten)
    ELSE IF ~dev.calibration.alloc THEN FileResult(dev, "NO_ALLOCATION", 0, 0, 0, NothingWritten)
    ELSE IF ~opened THEN FileResult(dev, "FILE_NOT_OPEN", 0, 1, 0, NothingWritten)
    ELSE LET written == fwrite(dev.calibration, count)
             result == IF SizeofCalibration # count THEN "SAVING_FAILED" ELSE "NO_ERROR"
         IN  IF ~closed THEN FileResult(dev, "FILE_NOT_CLOSED", count, 1, 1, written)
             ELSE FileResult(dev, result, count, 1, 1, written)

\* a session as open leaves it when no calibration could be downloaded
OpenedDevice ==
    [ZeroDevice EXCEPT !.vendor_id = XREAL_VENDOR_ID,
                       !.product_id = XREAL_PRODUCT_ID,
                       !.handle = [alloc |-> TRUE],
                       !.static_id = FALLBACK_STATIC_ID,
                       !.calibration = ResetCalibration,
                       !.offset = [alloc |-> TRUE, gyro |-> FUSION_VECTOR_ZERO],
                       !.ahrs = [alloc |-> TRUE, q |-> "finite"]]

\* the records a calibration file can hold: one saved after a calibration of the
\* gyroscope, one saved after a calibration of the magnetometer
FileRecords ==
    { [ResetCalibration EXCEPT !.gyroscopeOffset = <<2, 4, 6>>,
                               !.accelerometerSensitivity = <<3, 3, 3>>,
                               !.noises = [FUSION_IDENTITY_QUATERNION EXCEPT !.w = 1]],
      [ResetCalibration EXCEPT !.magnetometerOffset = <<8, 0, 2>>,
                               !.hardIronOffset = Scaled(<<4, 6, 8>>, 2)] }

\* the lengths a file can have: empty, cut short, a whole record, a longer file
FileLengths == { 0, OffsetAfter(3), OffsetAfter(10), SizeofCalibration, SizeofCalibration + 4 }

\* what fread or fwrite can return when `available` bytes can be transferred:
\* all of them, or fewer when the transfer fails on the way
Transferred(available) == { c \in Boundaries : c <= Min(available, SizeofCalibration) }

\* the observation kept of a file operation
FileCall(op, null, opened, pre, r) ==
    [ op |-> op, ret |-> "pending", null |-> null, opened |-> opened, pre |-> pre, count |-> r.count,
      fopens |-> r.fopens, fcloses |-> r.fcloses, written |-> r.written ]

LoadCalibration ==
    /\ pc = "idle"
    /\ \E null \in BOOLEAN, opened \in BOOLEAN, closed \in BOOLEAN,
          content \in FileRecords, length \in FileLengths :
       \E count \in Transferred(length) :
         LET r == device_imu_load_calibration(null, device, opened, content, count, closed)
         IN  /\ device' = r.device
             /\ Return(r.ret, FileCall("load", null, opened, device.calibration, r))
    /\ rd' = NoRd
    /\ UNCHANGED <<iron, ncal>>
    /\ UNCHANGED framing

SaveCalibration ==
    /\ pc = "idle"
    /\ \E null \in BOOLEAN, opened \in BOOLEAN, closed \in BOOLEAN :
       \E count \in Transferred(SizeofCalibration) :
         LET r == device_imu_save_calibration(null, device, opened, count, closed)
         IN  /\ device' = r.device
             /\ Return(r.ret, FileCall("save", null, opened, device.calibration, r))
    /\ rd' = NoRd
    /\ UNCHANGED <<iron, ncal>>
    /\ UNCHANGED framing

\* a session with or without a calibration record
InitFile ==
    /\ InitBut({"device"})
    /\ device \in {ZeroDevice, OpenedDevice}

\* an application that loads and saves the calibration of its session
NextFile ==
    \/ LoadCalibration
    \/ SaveCalibration
    \/ Resume

SpecFile == InitFile /\ [][NextFile]_vars

\* a file operation has returned
FileReturned == pc = "done" /\ call.op \in {"load", "save"}

\* the operation opened its file
FileOpened == call.fopens = 1 /\ call.opened

\* the error an incomplete transfer is to be reported as
Incomplete == IF call.op = "load" THEN "LOADING_FAILED" ELSE "SAVING_FAILED"

\* C19: in device_imu_load_calibration and device_imu_save_calibration the
\* file, once opened, is closed exactly once on every path; a transfer of fewer
\* bytes than the size of the record is reported as LOADING_FAILED or
\* SAVING_FAILED; a null device or an unallocated record is rejected with
\* NO_DEVICE or NO_ALLOCATION before any file is opened.
C19_FileContract ==
    FileReturned =>
        /\ FileOpened => call.fcloses = 1
        /\ ~FileOpened => call.fcloses = 0
        /\ FileOpened /\ call.count < SizeofCalibration => call.ret = Incomplete
        /\ call.null => call.ret = "NO_DEVICE" /\ call.fopens = 0
        /\ ~call.null /\ ~call.pre.alloc => call.ret = "NO_ALLOCATION" /\ call.fopens = 0

\* the parts that hold: closed once, rejected before any fopen, and an
\* incomplete transfer reported when fclose did not fail
C19_ClosedOnceAndRejected ==
    FileReturned =>
        /\ FileOpened => call.fcloses = 1
        /\ ~FileOpened => call.fcloses = 0
        /\ FileOpened /\ call.count < SizeofCalibration =>
              call.ret \in {Incomplete, "FILE_NOT_CLOSED"}
        /\ call.ret = "NO_ERROR" => FileOpened /\ call.count = SizeofCalibration
        /\ call.null => call.ret = "NO_DEVICE" /\ call.fopens = 0
        /\ ~call.null /\ ~call.pre.alloc => call.ret = "NO_ALLOCATION" /\ call.fopens = 0

\* a load that read part of the record and whose fclose failed has returned
\* FILE_NOT_CLOSED, with the record partly overwritten
C19_ShortLoadMasked ==
    /\ FileReturned /\ call.op = "load"
    /\ FileOpened /\ call.fcloses = 1
    /\ call.count > 0 /\ call.count < SizeofCalibration
    /\ call.ret = "FILE_NOT_CLOSED"
    /\ device.calibration # call.pre

\* the session SpecFile starts from is one device_imu_open leaves
OpenedDeviceReached == device = OpenedDevice /\ pc = "done" /\ call.op = "open"

----------------------------------------------------------------------------
(* The sample codecs (lines 467-491).  A 32-bit word is held as its two    *)
(* 16-bit halves <<low, high>>.                                            *)

RECURSIVE BitOr(_, _), BitXor(_, _), BitAnd(_, _)
\* a | b
BitOr(a, b) ==
    IF a = 0 THEN b ELSE IF b = 0 THEN a
    ELSE 2 * BitOr(a \div 2, b \div 2) + (IF a % 2 = 1 \/ b % 2 = 1 THEN 1 ELSE 0)

\* a ^ b
BitXor(a, b) ==
    IF a = 0 THEN b ELSE IF b = 0 THEN a
    ELSE 2 * BitXor(a \div 2, b \div 2) + ((a + b) % 2)

\* a & b
BitAnd(a, b) ==
    IF a = 0 \/ b = 0 THEN 0
    ELSE 2 * BitAnd(a \div 2, b \div 2) + (IF a % 2 = 1 /\ b % 2 = 1 THEN 1 ELSE 0)

\* a << n, for a result that fits
Shl(a, n) == a * 2^n

\* (int16_t) of a uint16_t
ToInt16(u) == IF u >= 2^15 THEN u - 2^16 ELSE u

\* (int32_t) of a uint32_t held as <<low, high>>
ToInt32(w) == (IF w[2] >= 2^15 THEN w[2] - 2^16 ELSE w[2]) * 2^16 + w[1]

\* lines 473-476
pack16bit_signed(data) ==
    LET unsigned_value == U16(BitOr(Shl(data[2], 8), data[1]))
    IN  ToInt16(unsigned_value)

\* the decoding without the exclusive or of the high byte
pack16bit_signed_bizarre_plain(data) ==
    LET unsigned_value == U16(BitOr(data[1], Shl(data[2], 8)))
    IN  ToInt16(unsigned_value)

\* lines 488-491
pack16bit_signed_bizarre(data) ==
    LET unsigned_value == U16(BitOr(data[1], Shl(BitXor(data[2], 128), 8)))
    IN  ToInt16(unsigned_value)

\* lines 467-471: data[0] | data[1] << 8 is the low half, data[2] the high half,
\* which 0xFF << 24 fills with ones above bit 7 (the value every build gives
\* the shift of the int constant into the sign bit)
pack24bit_signed(data) ==
    LET low == BitOr(data[1], Shl(data[2], 8))
        high == IF BitAnd(data[3], 128) # 0 THEN BitOr(data[3], Shl(255, 8)) ELSE data[3]
    IN  ToInt32(<<low, high>>)

\* the bytes every pair is built from, and the bytes tried beside a full range
Bytes == 0..255
ByteSamples == {0, 1, 2, 52, 127, 128, 129, 255}

\* the three bytes handed to a codec: every pair of low and high byte, and
\* every third byte beside sampled first and second bytes
CodecInputs ==
    { <<lo, hi, 0>> : lo \in Bytes, hi \in Bytes } \cup
    { <<b0, b1, b2>> : b0 \in ByteSamples, b1 \in ByteSamples, b2 \in Bytes }

InitCodec ==
    /\ InitBut({"loc"})
    /\ loc \in { [data |-> d] : d \in CodecInputs }

\* a codec called on the bytes: the observation is its value
Decode(op, value) ==
    /\ pc = "idle"
    /\ pc' = "done"
    /\ call' = [op |-> op, ret |-> value, data |-> loc.data]
    /\ UNCHANGED <<device, iron, loc, stale, rd, ncal>>
    /\ UNCHANGED framing

Pack16 == Decode("pack16bit_signed", pack16bit_signed(loc.data))
Pack16Bizarre == Decode("pack16bit_signed_bizarre", pack16bit_signed_bizarre(loc.data))
Pack24 == Decode("pack24bit_signed", pack24bit_signed(loc.data))

NextCodec ==
    \/ Pack16
    \/ Pack16Bizarre
    \/ Pack24

SpecCodec == InitCodec /\ [][NextCodec]_vars

\* the high byte with its 0x80 bit flipped
Flipped(hi) == IF hi >= 128 THEN hi - 128 ELSE hi + 128

\* the two's-complement value of n bits with unsigned value v
TwosComplement(v, n) == IF v >= 2^(n - 1) THEN v - 2^n ELSE v

\* C20: for every pair of bytes (lo, hi), pack16bit_signed_bizarre([lo, hi])
\* equals pack16bit_signed([lo, hi XOR 0x80]), the two's-complement 16-bit
\* value with low byte lo and high byte hi with its 0x80 bit flipped; and
\* pack24bit_signed([b0, b1, b2]) is the 24-bit little-endian value
\* sign-extended to 32 bits, which lies in -2^23 .. 2^23 - 1.
C20_Codecs ==
    pc = "done" =>
        LET d == call.data
        IN  /\ call.op = "pack16bit_signed_bizarre" =>
                  /\ call.ret = pack16bit_signed(<<d[1], Flipped(d[2])>>)
                  /\ call.ret = TwosComplement(d[1] + 256 * Flipped(d[2]), 16)
            /\ call.op = "pack24bit_signed" =>
                  /\ call.ret = TwosComplement(d[1] + 256 * d[2] + 65536 * d[3], 24)
                  /\ call.ret >= 0 - 2^23 /\ call.ret <= 2^23 - 1

\* bizarre16([0x34, 0x02]) has been decoded: it is int16(0x34, 0x82) = -32204
C20_Witness ==
    /\ pc = "done" /\ call.op = "pack16bit_signed_bizarre"
    /\ call.data = <<52, 2, 0>>
    /\ call.ret = 0 - 32204

\* a negative 24-bit value has been decoded
C20_Negative24 ==
    /\ pc = "done" /\ call.op = "pack24bit_signed"
    /\ call.data = <<255, 255, 255>>
    /\ call.ret = 0 - 1

\* the messages open has written so far, in order
IsWrite(e) == e.dir = "W"
Writes == SelectSeq(call.io, IsWrite)

\* message i of the writes is msgid with payload data
WriteIs(i, msgid, data) == Writes[i].msgid = msgid /\ Writes[i].data = data

\* C21: in every run of device_imu_open that returns NO_ERROR the messages
\* written are, in order, the stop signal (payload 0), get-static-id,
\* get-calibration-length, zero or more get-next-segment and last the start
\* signal (payload 1); each request is followed by at most one receive before
\* the next request; and when the start signal is rejected open returns
\* PAYLOAD_FAILED without the fusion engine or the drift tracker initialised.
C21_OpenMessageOrder ==
    call.op = "open" =>
        /\ pc = "done" /\ call.ret = "NO_ERROR" =>
              /\ Len(Writes) >= 4
              /\ WriteIs(1, DEVICE_IMU_MSG_START_IMU_DATA, <<0>>)
              /\ WriteIs(2, DEVICE_IMU_MSG_GET_STATIC_ID, <<>>)
              /\ WriteIs(3, DEVICE_IMU_MSG_GET_CAL_DATA_LENGTH, <<>>)
              /\ \A i \in 4..(Len(Writes) - 1) :
                    WriteIs(i, DEVICE_IMU_MSG_CAL_DATA_GET_NEXT_SEGMENT, <<>>)
              /\ WriteIs(Len(Writes), DEVICE_IMU_MSG_START_IMU_DATA, <<1>>)
              /\ Writes[Len(Writes)].ok
              /\ call.io[Len(call.io)].dir = "W"
        /\ \A i \in 1..(Len(call.io) - 1) :
              ~(call.io[i].dir = "R" /\ call.io[i + 1].dir = "R")
        /\ Len(call.io) > 0 => call.io[1].dir = "W"
        /\ pc = "done" /\ Sent(DEVICE_IMU_MSG_START_IMU_DATA, FALSE)
              /\ Len(Writes) > 1 =>
              /\ call.ret = "PAYLOAD_FAILED"
              /\ ~device.ahrs.alloc
              /\ ~device.offset.alloc

\* open returned NO_ERROR after a download of two segments
C21_Witness ==
    /\ pc = "done" /\ call.op = "open" /\ call.ret = "NO_ERROR"
    /\ Len(Writes) = 6
    /\ WriteIs(4, DEVICE_IMU_MSG_CAL_DATA_GET_NEXT_SEGMENT, <<>>)
    /\ device.ahrs.alloc

\* open returned PAYLOAD_FAILED at the start signal, after the download
C21_StartRejected ==
    /\ pc = "done" /\ call.op = "open" /\ call.ret = "PAYLOAD_FAILED"
    /\ Len(Writes) >= 5
    /\ Writes[Len(Writes)] = Wrote(DEVICE_IMU_MSG_START_IMU_DATA, <<1>>, FALSE)
    /\ ~device.ahrs.alloc

\* device_imu_read, called by the application or by open's clear, has run
ReadRan == rd.ret # "none"

\* the read processed a data frame
DataFrameProcessed == ReadRan /\ IsDataFrame(rd.frame) /\ rd.ret \in {"NO_ERROR", "INVALID_VALUE"}

\* now - before modulo 2^64, for timestamps below 2^16
Elapsed(now, before) ==
    IF now >= before THEN << now - before, 0, 0, 0 >>
    ELSE << 65536 + now - before, 65535, 65535, 65535 >>

\* C22: for every data frame processed by device_imu_read the interval passed
\* to the fusion engine is (timestamp - last_timestamp) modulo 2^64, with
\* last_timestamp the timestamp of the previous data frame processed on this
\* session, 0 when there was none since open zeroed the session; last_timestamp
\* is then the frame's timestamp, also when the call ends with INVALID_VALUE;
\* INIT frames and rejected frames never change last_timestamp.
C22_IntervalSinceLastDataFrame ==
    /\ [](DataFrameProcessed =>
            /\ \A i \in DOMAIN rd.fusion :
                  rd.fusion[i].deltaTime =
                      Elapsed(rd.frame.ts, rd.pre.device.last_timestamp[1])
            /\ device.last_timestamp = U64(rd.frame.ts))
    /\ [](ReadRan /\ ~DataFrameProcessed =>
            device.last_timestamp = rd.pre.device.last_timestamp)
    /\ [][device'.last_timestamp # device.last_timestamp =>
            \/ DataFrameProcessed' /\ rd' # rd
            \/ device'.last_timestamp = U64(0) /\ call'.op \in {"open", "close"}]_vars

\* a data frame older than the one before it was processed and ended with
\* INVALID_VALUE: the interval wrapped around and the timestamp was stored
C22_Witness ==
    /\ ReadReturned /\ rd.ret = "INVALID_VALUE"
    /\ rd.frame.ts = 3 /\ rd.pre.device.last_timestamp = U64(5)
    /\ Len(rd.fusion) = 1
    /\ rd.fusion[1].deltaTime = << 65534, 65535, 65535, 65535 >>
    /\ device.last_timestamp = U64(3)

\* C23: for every data frame processed by device_imu_read on a session whose
\* fusion engine is initialised, the fusion engine is updated exactly once,
\* through the update without magnetometer, whatever the magnetometer reading
\* is (a number or not); the update with magnetometer is never called.
C23_UpdateWithoutMagnetometer ==
    /\ DataFrameProcessed /\ rd.pre.device.ahrs.alloc =>
          /\ Len(rd.fusion) = 1
          /\ rd.fusion[1].update = "NoMagnetometer"
    /\ \A i \in DOMAIN rd.fusion : rd.fusion[i].update # "Magnetometer"
    /\ ~(DataFrameProcessed /\ rd.pre.device.ahrs.alloc) => rd.fusion = <<>>

\* a data frame whose calibrated magnetometer is a number on every axis was
\* processed, and the update was the one without magnetometer
C23_Witness ==
    /\ DataFrameProcessed /\ ReadReturned
    /\ Len(rd.fusion) = 1
    /\ rd.fusion[1].magnetometer = <<"finite", "finite", "finite">>
    /\ rd.fusion[1].update = "NoMagnetometer"

\* a data frame whose calibrated magnetometer is not a number on its x axis was processed
C23_NaNMagnetometer ==
    /\ DataFrameProcessed /\ ReadReturned
    /\ Len(rd.fusion) = 1
    /\ isnan(rd.fusion[1].magnetometer[1])
    /\ rd.fusion[1].update = "NoMagnetometer"

----------------------------------------------------------------------------
(* device_imu_calibrate on an open session, with no bound on the frames it *)
(* skips                                                                   *)

\* what hid_read gave is skipped by the loop: nothing (lines 735-737) or a full
\* frame with another signature (lines 744-746)
Skipped(f) ==
    LET transferred == hid_read(f, MAX_PACKET_SIZE)
    IN  transferred = 0 \/ (transferred = MAX_PACKET_SIZE /\ f.sig # SIG_DATA)

\* a loop that gives up when MaxSkip frames were skipped
CalibrateSkipGivesUp ==
    /\ pc = "cal_read"
    /\ call.skipped = MaxSkip
    /\ \E f \in StreamFrames : Skipped(f)
    /\ Return("UNEXPECTED", call)
    /\ UNCHANGED <<device, iron, rd, ncal>>
    /\ UNCHANGED framing

\* lines 721-746: one more frame to skip when MaxSkip of them were counted; the
\* counts of reads and skipped frames stay as they are and the loop goes on
CalibrateSkipOn ==
    /\ pc = "cal_read"
    /\ call.skipped = MaxSkip
    /\ \E f \in StreamFrames : Skipped(f)
    /\ loc' = Continue(loc)
    /\ call' = [call EXCEPT !.uncounted = TRUE]
    /\ UNCHANGED <<device, iron, pc, stale, rd, ncal>>
    /\ UNCHANGED framing

\* the transport delivers what makes the loop advance: a data frame, a hard
\* error or a short frame
Delivery ==
    /\ CalibrateRead
    /\ pc' = "done" \/ loc'.iterations < loc.iterations

InitSkip ==
    /\ InitBut({"device"})
    /\ device = OpenedDevice

\* an application that calibrates its open session
NextSkip ==
    \/ CalibrateBegin
    \/ CalibrateRead
    \/ CalibrateSkipOn
    \/ Resume

\* the transport may deliver frames to skip for ever
SpecSkip == InitSkip /\ [][NextSkip]_vars

\* the transport delivers, again and again, something that is not skipped
SpecDelivers == SpecSkip /\ WF_vars(Delivery)

\* the loop skips a frame and is where it was
SkipStep == pc = "cal_read" /\ pc' = "cal_read" /\ loc' = loc /\ device' = device

\* C24: device_imu_calibrate(iterations = n) returns if and only if the
\* transport eventually delivers n full frames with the data signature, or a
\* hard error, or a non-empty frame of fewer than 64 bytes: with such
\* deliveries it returns, it returns by nothing else, and frames to skip
\* (zero-byte reads, full frames with another signature) can go on for ever,
\* each leaving the remaining count as it was.
C24_ReturnsIffDelivered ==
    /\ (pc = "cal_read") ~> (pc = "done")
    /\ [][pc = "cal_read" /\ pc' = "done" =>
            \/ call'.ret = "NO_ERROR" /\ call'.consumed = call.n
            \/ call'.ret = "UNPLUGGED" /\ call'.consumed < call.n
            \/ call'.ret = "UNEXPECTED" /\ call'.consumed < call.n]_vars
    /\ [][pc = "cal_read" /\ call'.consumed = call.consumed /\ pc' # "done" => SkipStep]_vars
    /\ [](pc = "cal_read" => ENABLED (NextSkip /\ SkipStep))

\* without the deliveries the call need not return: this does not hold when
\* the transport is free to deliver frames to skip for ever
C24_ReturnsAnyway == (pc = "cal_read") ~> (pc = "done")

\* a calibration over two data frames has returned after more skipped frames
\* than are counted
C24_Witness ==
    /\ pc = "done" /\ call.op = "calibrate" /\ call.ret = "NO_ERROR"
    /\ call.n = 2 /\ call.consumed = 2
    /\ call.skipped = MaxSkip /\ call.uncounted

----------------------------------------------------------------------------
(* C25: the result of open and what it received                            *)

\* open wrote the message and the transport accepted it
Accepted(msgid, data) ==
    \E i \in DOMAIN call.io :
        /\ call.io[i].dir = "W"
        /\ call.io[i].msgid = msgid /\ call.io[i].data = data
        /\ call.io[i].ok

\* the stop signal, the two requests and the start signal were all accepted
FourWritesAccepted ==
    /\ Accepted(DEVICE_IMU_MSG_START_IMU_DATA, <<0>>)
    /\ Accepted(DEVICE_IMU_MSG_GET_STATIC_ID, <<>>)
    /\ Accepted(DEVICE_IMU_MSG_GET_CAL_DATA_LENGTH, <<>>)
    /\ Accepted(DEVICE_IMU_MSG_START_IMU_DATA, <<1>>)

\* open has returned and had a handle: the subsystem came up and a device matched
OpenReturnedWithHandle ==
    pc = "done" /\ call.op = "open" /\ call.ret \notin {"NOT_INITIALIZED", "NO_HANDLE"}

\* the receive of the reply to the message failed (the first two entries of io
\* are the stop signal and the clear read)
ReceiveFailed(msgid) ==
    \E i \in 3..Len(call.io) :
        call.io[i].dir = "R" /\ call.io[i].msgid = msgid /\ ~call.io[i].ok

\* the last thing open did with the transport was a write of one of its four
\* messages that the transport rejected
RejectedAtLast ==
    /\ call.io # <<>>
    /\ LET e == call.io[Len(call.io)]
       IN  /\ e.dir = "W" /\ ~e.ok
           /\ e.msgid \in {DEVICE_IMU_MSG_START_IMU_DATA, DEVICE_IMU_MSG_GET_STATIC_ID,
                            DEVICE_IMU_MSG_GET_CAL_DATA_LENGTH}

\* C25: the result of open does not depend on anything it received: with a
\* session, the subsystem up and a matching handle, open returns NO_ERROR if and
\* only if its stop signal, static-id request, calibration-length request and
\* start signal are all accepted; otherwise it returns PAYLOAD_FAILED, and does
\* so at the rejected write, whatever the receives gave.
C25_ResultFromWritesOnly ==
    OpenReturnedWithHandle =>
        /\ device.handle.alloc
        /\ call.ret = "NO_ERROR" <=> FourWritesAccepted
        /\ call.ret # "NO_ERROR" => call.ret = "PAYLOAD_FAILED" /\ RejectedAtLast

\* open returned NO_ERROR although the static id and the calibration length
\* were not received
C25_Witness ==
    /\ OpenReturnedWithHandle /\ call.ret = "NO_ERROR"
    /\ ReceiveFailed(DEVICE_IMU_MSG_GET_STATIC_ID)
    /\ ReceiveFailed(DEVICE_IMU_MSG_GET_CAL_DATA_LENGTH)

\* open returned NO_ERROR after a download that a rejected segment request or a
\* failed segment receive cut short
C25_DownloadCutShort ==
    /\ OpenReturnedWithHandle /\ call.ret = "NO_ERROR"
    /\ call.segFailed

----------------------------------------------------------------------------
(* C26: the callback and the fusion engine                                 *)

\* the events the callback has received in the call observed
Dispatched == IF call.op = "open" THEN call.events \o rd.events ELSE rd.events

\* C26: the callback is never invoked before open has initialised the fusion
\* engine: open dispatches no event, not even from its clear read, and every
\* event the callback receives, over any sequence of open, read, calibrate and
\* close, carries a non-null fusion-state handle.
C26_CallbackAfterFusion ==
    /\ call.op = "open" => call.events = <<>>
    /\ \A i \in DOMAIN Dispatched : Dispatched[i].ahrs

\* what the code keeps: a read on a session whose fusion engine is initialised
\* hands its handle to the callback
C26_StreamingSessionHasHandle ==
    call.op = "read" /\ rd.pre.device.ahrs.alloc =>
        \A i \in DOMAIN rd.events : rd.events[i].ahrs

\* open is past its clear read, which handed the callback an event of a stale
\* frame with a null fusion-state handle
C26_EventDuringOpen ==
    /\ call.op = "open" /\ pc = "open_send_id"
    /\ call.events # <<>>
    /\ ~call.events[1].ahrs

\* a read on a session whose open stopped at a rejected start signal handed the
\* callback an event with a null fusion-state handle
C26_EventOnPartialSession ==
    /\ pc = "done" /\ call.op = "read"
    /\ device.handle.alloc /\ ~device.ahrs.alloc
    /\ rd.events # <<>>
    /\ ~rd.events[1].ahrs

====
